---------------------------- MODULE Spec2Model ----------------------------
(***************************************************************************)
(* Model of the wasm-docker-gateway request/response framing engine:       *)
(* gateway_native and gateway_host (src/gateway_native/src/main.rs,        *)
(* src/gateway_host/src/main.rs) and the transform module gateway_wasm     *)
(* (src/gateway_wasm/src/main.rs).                                         *)
(*                                                                         *)
(* Bytes are one-character strings; a byte string is a sequence of them.   *)
(* The byte "0xFF" stands for a byte that is not valid UTF-8.              *)
(*                                                                         *)
(* The size ceilings and buffer sizes of the source are scaled down so     *)
(* that the model checker reaches them; every comparison against them is   *)
(* the source's comparison.                                                *)
(***************************************************************************)
EXTENDS Integers, Sequences, FiniteSets, TLC

(***************************************************************************)
(* Program constants (scaled).                                             *)
(***************************************************************************)
\* const MAX_HEADER_BYTES: usize = 64 * 1024 (scaled)
MAX_HEADER_BYTES == 64
\* const MAX_REQ_BODY_BYTES / MAX_BODY_BYTES: usize = 2 * 1024 * 1024 (scaled)
MAX_REQ_BODY_BYTES == 4
\* const MAX_RESP_BYTES: usize = 10 * 1024 * 1024 (scaled)
MAX_RESP_BYTES == 96
\* let mut tmp = [0u8; 4096] in read_http_request (scaled)
REQ_TMP_LEN == 4
\* let mut tmp = [0u8; 8192] in read_all_response (scaled)
RESP_TMP_LEN == 32
\* usize::MAX, the largest value parse::<usize> accepts (scaled to 8 bits)
USIZE_MAX == 255
\* u16::MAX, the largest value parse::<u16> accepts
U16_MAX == 65535

(***************************************************************************)
(* Bounds of the model.                                                    *)
(***************************************************************************)
\* connections the accept loop takes before the model stops
MaxConns == 2
\* the length of a short read on the upstream
UpShortRead == 20

(***************************************************************************)
(* Byte-string helpers: the std operations the source calls.               *)
(***************************************************************************)
Min(a, b) == IF a < b THEN a ELSE b

CR == "\r"
LF == "\n"
CRLF == <<CR, LF>>
BAD_BYTE == "0xFF"

\* char::is_whitespace over the bytes of the model
IsWhitespace(c) == c \in {" ", "\t", CR, LF}

UpperChars == <<"A","B","C","D","E","F","G","H","I","J","K","L","M",
                "N","O","P","Q","R","S","T","U","V","W","X","Y","Z">>
LowerChars == <<"a","b","c","d","e","f","g","h","i","j","k","l","m",
                "n","o","p","q","r","s","t","u","v","w","x","y","z">>

\* u8::to_ascii_lowercase
LowerChar(c) ==
  IF \E i \in 1..26 : UpperChars[i] = c
  THEN LowerChars[CHOOSE i \in 1..26 : UpperChars[i] = c]
  ELSE c

\* str::to_ascii_lowercase
to_ascii_lowercase(s) == [i \in 1..Len(s) |-> LowerChar(s[i])]

\* str::starts_with
starts_with(s, p) == Len(s) >= Len(p) /\ SubSeq(s, 1, Len(p)) = p

\* the rest of s after the prefix p (str::strip_prefix, when it is Some)
strip_prefix(s, p) == SubSeq(s, Len(p) + 1, Len(s))

\* std::str::from_utf8(..).is_ok()
IsUtf8(s) == \A i \in 1..Len(s) : s[i] # BAD_BYTE

\* buf.windows(4).position(|w| w == b"\r\n\r\n"): the 0-based offset of the
\* first head terminator, -1 for None
find_double_crlf(buf) ==
  LET hits == {i \in 1..(Len(buf) - 3) : SubSeq(buf, i, i + 3) = CRLF \o CRLF}
  IN IF hits = {} THEN -1
     ELSE (CHOOSE i \in hits : \A j \in hits : i <= j) - 1

\* str::split("\r\n") collected: the pieces between non-overlapping
\* occurrences of CRLF, left to right; never empty
RECURSIVE SplitCRLF(_)
SplitCRLF(s) ==
  LET hits == {i \in 1..(Len(s) - 1) : s[i] = CR /\ s[i + 1] = LF}
  IN IF hits = {} THEN <<s>>
     ELSE LET i == CHOOSE k \in hits : \A j \in hits : k <= j
          IN <<SubSeq(s, 1, i - 1)>> \o SplitCRLF(SubSeq(s, i + 2, Len(s)))

\* str::split_whitespace collected: the maximal runs of non-whitespace
RECURSIVE split_whitespace(_)
split_whitespace(s) ==
  IF s = <<>> THEN <<>>
  ELSE IF IsWhitespace(s[1]) THEN split_whitespace(Tail(s))
  ELSE LET stops == {i \in 1..Len(s) : IsWhitespace(s[i])}
           e == IF stops = {} THEN Len(s) + 1
                ELSE CHOOSE k \in stops : \A j \in stops : k <= j
       IN <<SubSeq(s, 1, e - 1)>> \o split_whitespace(SubSeq(s, e, Len(s)))

\* str::trim
trim(s) ==
  LET keep == {i \in 1..Len(s) : ~IsWhitespace(s[i])}
  IN IF keep = {} THEN <<>>
     ELSE SubSeq(s, CHOOSE i \in keep : \A j \in keep : i <= j,
                    CHOOSE i \in keep : \A j \in keep : i >= j)

\* str::trim_end_matches('/')
RECURSIVE trim_end_matches_slash(_)
trim_end_matches_slash(s) ==
  IF s # <<>> /\ s[Len(s)] = "/"
  THEN trim_end_matches_slash(SubSeq(s, 1, Len(s) - 1))
  ELSE s

\* str::trim_start_matches('/')
RECURSIVE trim_start_matches_slash(_)
trim_start_matches_slash(s) ==
  IF s # <<>> /\ s[1] = "/" THEN trim_start_matches_slash(Tail(s)) ELSE s

DigitChars == <<"0","1","2","3","4","5","6","7","8","9">>
IsDigit(c) == \E i \in 1..10 : DigitChars[i] = c
DigitVal(c) == (CHOOSE i \in 1..10 : DigitChars[i] = c) - 1

\* the value of a digit string, saturating just above max (checked_mul /
\* checked_add of the integer parser report overflow)
RECURSIVE DigitsValue(_, _, _)
DigitsValue(s, acc, max) ==
  IF s = <<>> THEN acc
  ELSE IF acc * 10 + DigitVal(s[1]) > max THEN max + 1
  ELSE DigitsValue(Tail(s), acc * 10 + DigitVal(s[1]), max)

\* str::parse for an unsigned integer of the given maximum: an optional
\* "+", then one or more ASCII digits, no overflow; -1 for Err
ParseUnsigned(s, max) ==
  LET d == IF s # <<>> /\ s[1] = "+" THEN Tail(s) ELSE s
  IN IF d = <<>> \/ (\E i \in 1..Len(d) : ~IsDigit(d[i])) THEN -1
     ELSE LET v == DigitsValue(d, 0, max)
          IN IF v > max THEN -1 ELSE v

\* u64 / usize / u16 to_string: decimal digits, no sign, no padding
RECURSIVE to_string(_)
to_string(n) ==
  IF n < 10 THEN <<DigitChars[n + 1]>>
  ELSE to_string(n \div 10) \o <<DigitChars[(n % 10) + 1]>>


(***************************************************************************)
(* Byte-string literals of the source.                                     *)
(***************************************************************************)
CONTENT_LENGTH_PFX == <<"c","o","n","t","e","n","t","-","l","e","n","g","t","h",":">>
HOST_PFX == <<"h","o","s","t",":">>
CONNECTION_PFX == <<"c","o","n","n","e","c","t","i","o","n",":">>
X_GATEWAY_VARIANT_PFX == <<"x","-","g","a","t","e","w","a","y","-","v","a","r","i","a","n","t",":">>
X_GATEWAY_WORKLOAD_PFX == <<"x","-","g","a","t","e","w","a","y","-","w","o","r","k","l","o","a","d",":">>
X_UPSTREAM_URL_PFX == <<"x","-","u","p","s","t","r","e","a","m","-","u","r","l",":">>
X_UPSTREAM_STATUS_PFX == <<"x","-","u","p","s","t","r","e","a","m","-","s","t","a","t","u","s",":">>
STR_GET == <<"G","E","T">>
STR_health == <<"/","h","e","a","l","t","h">>
STR_slash == <<"/">>
STR_slash_q == <<"/","?">>
STR_compute == <<"/","c","o","m","p","u","t","e">>
STR_state == <<"/","s","t","a","t","e">>
STR_iters == <<"i","t","e","r","s">>
STR_OK == <<"O","K">>
STR_hello == <<"h","e","l","l","o">>
STR_wasm_pfx == <<"w","a","s","m",":">>
STATUS_200 == <<"H","T","T","P","/","1",".","1"," ","2","0","0"," ","O","K">>
TEXT_PLAIN == <<"t","e","x","t","/","p","l","a","i","n">>
HDR_CONTENT_TYPE == <<"C","o","n","t","e","n","t","-","T","y","p","e",":"," ">>
HDR_X_GATEWAY_VARIANT == <<"X","-","G","a","t","e","w","a","y","-","V","a","r","i","a","n","t",":"," ">>
HDR_X_GATEWAY_WORKLOAD == <<"X","-","G","a","t","e","w","a","y","-","W","o","r","k","l","o","a","d",":"," ">>
HDR_CONTENT_LENGTH == <<"C","o","n","t","e","n","t","-","L","e","n","g","t","h",":"," ">>
HDR_CONNECTION_CLOSE == <<"C","o","n","n","e","c","t","i","o","n",":"," ","c","l","o","s","e">>
HDR_HOST == <<"H","o","s","t",":"," ">>
NAME_X_UPSTREAM_URL == <<"X","-","U","p","s","t","r","e","a","m","-","U","r","l">>
NAME_X_UPSTREAM_STATUS == <<"X","-","U","p","s","t","r","e","a","m","-","S","t","a","t","u","s">>
VARIANT_native == <<"n","a","t","i","v","e">>
VARIANT_wasm_host == <<"w","a","s","m","-","h","o","s","t">>
WL_health == <<"h","e","a","l","t","h">>
WL_hello == <<"h","e","l","l","o">>
WL_compute == <<"c","o","m","p","u","t","e">>
WL_state == <<"s","t","a","t","e">>
WL_proxy == <<"p","r","o","x","y">>

\* const GATEWAY_VARIANT of the two binaries
Variants == {VARIANT_native, VARIANT_wasm_host}

(***************************************************************************)
(* Errors: the spec's names for the source's anyhow! messages.             *)
(***************************************************************************)
ErrIo == "IoError"
ErrClosedEarly == "ConnectionClosedEarly"
ErrHeadersTooLarge == "HeadersTooLarge"
ErrBodyTooLarge == "BodyTooLarge"
ErrIncompleteBody == "IncompleteBody"
ErrMalformedHead == "MalformedHead"
ErrInvalidContentLength == "InvalidContentLength"
ErrUpstreamConnect == "UpstreamConnectFailed"
ErrResponseTooLarge == "ResponseTooLarge"
ErrMalformedUpstream == "MalformedUpstreamResponse"
ErrTransformFailed == "TransformFailed"
ErrClientWrite == "ClientWriteFailed"

(***************************************************************************)
(* parse_request_head                                                      *)
(***************************************************************************)
\* ContentLengthOfLines with a value that does not parse taken as 0
RECURSIVE ContentLengthOfLines_Lenient(_, _)
ContentLengthOfLines_Lenient(lines, acc) ==
  IF lines = <<>> THEN acc
  ELSE LET lower == to_ascii_lowercase(Head(lines))
       IN IF starts_with(lower, CONTENT_LENGTH_PFX)
          THEN LET v == ParseUnsigned(trim(strip_prefix(lower, CONTENT_LENGTH_PFX)),
                                      USIZE_MAX)
               IN IF v < 0 THEN ContentLengthOfLines_Lenient(Tail(lines), 0) ELSE ContentLengthOfLines_Lenient(Tail(lines), v)
          ELSE ContentLengthOfLines_Lenient(Tail(lines), acc)

\* the for loop over the header lines: the last Content-Length line wins,
\* the first one that does not parse ends the loop with Err (-1)
RECURSIVE ContentLengthOfLines(_, _)
ContentLengthOfLines(lines, acc) ==
  IF lines = <<>> THEN acc
  ELSE LET lower == to_ascii_lowercase(Head(lines))
       IN IF starts_with(lower, CONTENT_LENGTH_PFX)
          THEN LET v == ParseUnsigned(trim(strip_prefix(lower, CONTENT_LENGTH_PFX)),
                                      USIZE_MAX)
               IN IF v < 0 THEN -1 ELSE ContentLengthOfLines(Tail(lines), v)
          ELSE ContentLengthOfLines(Tail(lines), acc)

NoRequest == [method |-> <<>>, path |-> <<>>, version |-> <<>>, content_length |-> 0]

\* Result<RequestLine>: [err |-> "" | error, req |-> RequestLine]
parse_request_head(head) ==
  IF ~IsUtf8(head) THEN [err |-> ErrMalformedHead, req |-> NoRequest]
  ELSE LET lines == SplitCRLF(head)
           parts == split_whitespace(lines[1])
       IN IF Len(parts) < 3 THEN [err |-> ErrMalformedHead, req |-> NoRequest]
          ELSE LET cl == ContentLengthOfLines(Tail(lines), 0)
               IN IF cl < 0 THEN [err |-> ErrInvalidContentLength, req |-> NoRequest]
                  ELSE [err |-> "",
                        req |-> [method |-> parts[1], path |-> parts[2],
                                 version |-> parts[3], content_length |-> cl]]

(***************************************************************************)
(* query_param and cpu_heavy                                               *)
(***************************************************************************)
\* the 1-based index of the first c in s, 0 when there is none
IndexOf(s, c) ==
  LET hits == {i \in 1..Len(s) : s[i] = c}
  IN IF hits = {} THEN 0 ELSE CHOOSE i \in hits : \A j \in hits : i <= j

\* str::split(c) collected
RECURSIVE SplitChar(_, _)
SplitChar(s, c) ==
  LET i == IndexOf(s, c)
  IN IF i = 0 THEN <<s>>
     ELSE <<SubSeq(s, 1, i - 1)>> \o SplitChar(SubSeq(s, i + 1, Len(s)), c)

\* the loop over the pairs of the query string: the value of the first pair
\* whose key is key; <<FALSE, _>> for None
RECURSIVE FirstPairValue(_, _)
FirstPairValue(pairs, key) ==
  IF pairs = <<>> THEN <<FALSE, <<>>>>
  ELSE LET pair == Head(pairs)
           i == IndexOf(pair, "=")
           k == IF i = 0 THEN pair ELSE SubSeq(pair, 1, i - 1)
           v == IF i = 0 THEN <<>> ELSE SubSeq(pair, i + 1, Len(pair))
       IN IF k = key THEN <<TRUE, v>> ELSE FirstPairValue(Tail(pairs), key)

\* Option<String>: <<is_some, value>>
query_param(path, key) ==
  LET i == IndexOf(path, "?")
  IN IF i = 0 THEN <<FALSE, <<>>>>
     ELSE FirstPairValue(SplitChar(SubSeq(path, i + 1, Len(path)), "&"), key)

\* u64::MAX, the largest value parse::<u64> accepts (scaled)
U64_MAX == 99999
\* .unwrap_or(50_000)
DEFAULT_ITERS == 50000

\* ItersOf with 0 iterations for a parameter that does not parse
ItersOf_UnparsableIsZero(path) ==
  LET q == query_param(path, STR_iters)
      v == IF q[1] THEN ParseUnsigned(q[2], U64_MAX) ELSE -1
  IN IF v >= 0 THEN v ELSE IF q[1] THEN 0 ELSE DEFAULT_ITERS

\* query_param(..).and_then(|v| v.parse::<u64>().ok()).unwrap_or(50_000)
ItersOf(path) ==
  LET q == query_param(path, STR_iters)
      v == IF q[1] THEN ParseUnsigned(q[2], U64_MAX) ELSE -1
  IN IF v < 0 THEN DEFAULT_ITERS ELSE v

\* cpu_heavy: the hex digest of the hash chain, a deterministic function of
\* iters alone; the digest is kept symbolic, one distinct string for each
\* iteration count
cpu_heavy(iters) == <<"#">> \o to_string(iters)

(***************************************************************************)
(* parse_upstream: the Upstream of an UPSTREAM_URL http://<host><path>     *)
(***************************************************************************)
URL_SCHEME == <<"h","t","t","p",":","/","/">>

\* url.path() of a URL whose text after the host is rest: "/" when empty
UrlPath(rest) == IF rest = <<>> THEN STR_slash ELSE rest

parse_upstream(host, rest) ==
  [host |-> host,
   base_path |-> trim_end_matches_slash(UrlPath(rest)),
   raw_url |-> URL_SCHEME \o host \o rest]

(***************************************************************************)
(* build_forwarded_request                                                 *)
(***************************************************************************)
\* the forwarded request target
\* forwarded_path without the "/" between the base path and the target
forwarded_path_NoSeparator(req, upstream) ==
  IF upstream.base_path = <<>> \/ upstream.base_path = STR_slash
  THEN req.path
  ELSE trim_end_matches_slash(upstream.base_path)
         \o trim_start_matches_slash(req.path)

\* the path of the request line sent upstream: req.path, or base_path and
\* req.path joined by one "/"
forwarded_path(req, upstream) ==
  IF upstream.base_path = <<>> \/ upstream.base_path = STR_slash
  THEN req.path
  ELSE trim_end_matches_slash(upstream.base_path) \o STR_slash
         \o trim_start_matches_slash(req.path)

\* ForwardDrops without the to_ascii_lowercase of the line
ForwardDrops_CaseSensitive(line) ==
  starts_with(line, HOST_PFX) \/ starts_with(line, CONNECTION_PFX)

\* whether the loop over the original header lines drops the line
ForwardDrops(line) ==
  LET lower == to_ascii_lowercase(line)
  IN starts_with(lower, HOST_PFX) \/ starts_with(lower, CONNECTION_PFX)

\* the header lines the loop copies, each followed by CRLF
RECURSIVE ForwardedLines(_)
ForwardedLines(lines) ==
  IF lines = <<>> THEN <<>>
  ELSE IF Head(lines) = <<>> \/ ForwardDrops(Head(lines))
  THEN ForwardedLines(Tail(lines))
  ELSE Head(lines) \o CRLF \o ForwardedLines(Tail(lines))

\* build_forwarded_request with the body cut to content_length bytes
build_forwarded_request_BodyToLength(req, original_head, body, upstream) ==
  req.method \o <<" ">> \o forwarded_path(req, upstream) \o <<" ">>
    \o req.version \o CRLF
    \o ForwardedLines(Tail(SplitCRLF(original_head)))
    \o HDR_HOST \o upstream.host \o CRLF
    \o HDR_CONNECTION_CLOSE \o CRLF
    \o CRLF
    \o SubSeq(body, 1, req.content_length)

build_forwarded_request(req, original_head, body, upstream) ==
  req.method \o <<" ">> \o forwarded_path(req, upstream) \o <<" ">>
    \o req.version \o CRLF
    \o ForwardedLines(Tail(SplitCRLF(original_head)))
    \o HDR_HOST \o upstream.host \o CRLF
    \o HDR_CONNECTION_CLOSE \o CRLF
    \o CRLF
    \o body

(***************************************************************************)
(* Response side: split_http_response, parse_status_code_from_head,        *)
(* build_response, rebuild_response_with_extra_headers                     *)
(***************************************************************************)
\* Result<(head, body)>: [ok, head, body]
split_http_response(resp) ==
  LET header_end == find_double_crlf(resp)
  IN IF header_end < 0 THEN [ok |-> FALSE, head |-> <<>>, body |-> <<>>]
     ELSE [ok |-> TRUE,
           head |-> SubSeq(resp, 1, header_end),
           body |-> SubSeq(resp, header_end + 5, Len(resp))]

\* Result<u16>: the status code, -1 for Err
parse_status_code_from_head(head) ==
  IF ~IsUtf8(head) THEN -1
  ELSE LET parts == split_whitespace(SplitCRLF(head)[1])
       IN IF Len(parts) < 2 THEN -1 ELSE ParseUnsigned(parts[2], U16_MAX)

\* for (name, value) in extra_headers: "{name}: {value}\r\n"
RECURSIVE ExtraHeaderLines(_)
ExtraHeaderLines(extra_headers) ==
  IF extra_headers = <<>> THEN <<>>
  ELSE Head(extra_headers)[1] \o <<":", " ">> \o Head(extra_headers)[2] \o CRLF
         \o ExtraHeaderLines(Tail(extra_headers))

\* the gateway's own header block and the body, which end both builders
GatewayTail(variant, body, workload, extra_headers) ==
  HDR_X_GATEWAY_VARIANT \o variant \o CRLF
    \o HDR_X_GATEWAY_WORKLOAD \o workload \o CRLF
    \o ExtraHeaderLines(extra_headers)
    \o HDR_CONTENT_LENGTH \o to_string(Len(body)) \o CRLF
    \o HDR_CONNECTION_CLOSE \o CRLF \o CRLF
    \o body

\* build_response with the Content-Type line left out by the wasm-host
\* variant
build_response_HostWithoutContentType(variant, status_line, body, workload, extra_headers) ==
  IF variant = <<"w","a","s","m","-","h","o","s","t">>
  THEN status_line \o CRLF \o GatewayTail(variant, body, workload, extra_headers)
  ELSE status_line \o CRLF
         \o HDR_CONTENT_TYPE \o TEXT_PLAIN \o CRLF
         \o GatewayTail(variant, body, workload, extra_headers)

\* build_response with content_type = Some("text/plain"), as every caller
\* passes it
build_response(variant, status_line, body, workload, extra_headers) ==
  status_line \o CRLF
    \o HDR_CONTENT_TYPE \o TEXT_PLAIN \o CRLF
    \o GatewayTail(variant, body, workload, extra_headers)

\* RewriteDrops without the to_ascii_lowercase of the line
RewriteDrops_CaseSensitive(line) ==
  \/ starts_with(line, CONTENT_LENGTH_PFX)
  \/ starts_with(line, CONNECTION_PFX)
  \/ starts_with(line, X_GATEWAY_VARIANT_PFX)
  \/ starts_with(line, X_GATEWAY_WORKLOAD_PFX)
  \/ starts_with(line, X_UPSTREAM_URL_PFX)
  \/ starts_with(line, X_UPSTREAM_STATUS_PFX)

\* whether the loop over the upstream's header lines drops the line
RewriteDrops(line) ==
  LET lower == to_ascii_lowercase(line)
  IN \/ starts_with(lower, CONTENT_LENGTH_PFX)
     \/ starts_with(lower, CONNECTION_PFX)
     \/ starts_with(lower, X_GATEWAY_VARIANT_PFX)
     \/ starts_with(lower, X_GATEWAY_WORKLOAD_PFX)
     \/ starts_with(lower, X_UPSTREAM_URL_PFX)
     \/ starts_with(lower, X_UPSTREAM_STATUS_PFX)

\* the upstream header lines the loop copies, each followed by CRLF
RECURSIVE RewrittenLines(_)
RewrittenLines(lines) ==
  IF lines = <<>> THEN <<>>
  ELSE IF Head(lines) = <<>> \/ RewriteDrops(Head(lines))
  THEN RewrittenLines(Tail(lines))
  ELSE Head(lines) \o CRLF \o RewrittenLines(Tail(lines))

\* head is valid UTF-8 wherever this is called: parse_status_code_from_head
\* has returned Ok on the same bytes
rebuild_response_with_extra_headers(variant, head, body, workload, extra_headers) ==
  LET lines == SplitCRLF(head)
  IN lines[1] \o CRLF
       \o RewrittenLines(Tail(lines))
       \o GatewayTail(variant, body, workload, extra_headers)

\* proxy_headers with the status of a successful response, whatever the
\* upstream answered
proxy_headers_Status200(upstream, upstream_status) ==
  << <<NAME_X_UPSTREAM_URL, upstream.raw_url>>,
     <<NAME_X_UPSTREAM_STATUS, to_string(200)>> >>

\* the proxy_headers vector of handle_client
proxy_headers(upstream, upstream_status) ==
  << <<NAME_X_UPSTREAM_URL, upstream.raw_url>>,
     <<NAME_X_UPSTREAM_STATUS, to_string(upstream_status)>> >>

(***************************************************************************)
(* gateway_wasm: the transform module run by wasm_transform                *)
(***************************************************************************)
\* main of gateway_wasm: standard output for a standard input read to its end
gateway_wasm_main(input) == STR_wasm_pfx \o input

(***************************************************************************)
(* The environment: what clients send, what the upstream answers, how the  *)
(* gateway is configured.                                                  *)
(***************************************************************************)
\* n bytes of padding
Pad(n) == [i \in 1..n |-> "x"]

S_health == <<"G","E","T"," ","/","h","e","a","l","t","h"," ","H","T","T","P","/","1",".","1",CR,LF,CR,LF>>
S_hello == <<"G","E","T"," ","/"," ","H","T","T","P","/","1",".","1",CR,LF,"H","o","s","t",":"," ","c",CR,LF,CR,LF>>
S_hello_q == <<"G","E","T"," ","/","?","a"," ","H","T","T","P","/","1",".","1",CR,LF,CR,LF>>
S_compute == <<"G","E","T"," ","/","c","o","m","p","u","t","e"," ","H","T","T","P","/","1",".","1",CR,LF,CR,LF>>
S_compute_2 == <<"G","E","T"," ","/","c","o","m","p","u","t","e","?","i","t","e","r","s","=","2"," ","H","T","T","P","/","1",".","1",CR,LF,CR,LF>>
S_compute_abc == <<"G","E","T"," ","/","c","o","m","p","u","t","e","?","i","t","e","r","s","=","a","b","c"," ","H","T","T","P","/","1",".","1",CR,LF,CR,LF>>
S_state == <<"G","E","T"," ","/","s","t","a","t","e"," ","H","T","T","P","/","1",".","1",CR,LF,CR,LF>>
S_statex == <<"G","E","T"," ","/","s","t","a","t","e","x","?","y"," ","H","T","T","P","/","1",".","1",CR,LF,CR,LF>>
S_healthz == <<"G","E","T"," ","/","h","e","a","l","t","h","z"," ","H","T","T","P","/","1",".","1",CR,LF,CR,LF>>
S_get_a == <<"G","E","T"," ","/","a"," ","H","T","T","P","/","1",".","1",CR,LF,"H","o","s","t",":"," ","c",CR,LF,"X","-","A",":"," ","1",CR,LF,"C","O","N","N","E","C","T","I","O","N",":"," ","k","e","e","p","-","a","l","i","v","e",CR,LF,CR,LF>>
S_users == <<"G","E","T"," ","/","u","s","e","r","s","?","x","=","1"," ","H","T","T","P","/","1",".","1",CR,LF,CR,LF>>
S_post_state == <<"P","O","S","T"," ","/","s","t","a","t","e"," ","H","T","T","P","/","1",".","1",CR,LF,"C","o","n","t","e","n","t","-","L","e","n","g","t","h",":"," ","2",CR,LF,CR,LF,"h","i">>
S_post_compute == <<"P","O","S","T"," ","/","c","o","m","p","u","t","e"," ","H","T","T","P","/","1",".","1",CR,LF,CR,LF>>
S_post_excess == <<"P","O","S","T"," ","/","a"," ","H","T","T","P","/","1",".","1",CR,LF,"C","o","n","t","e","n","t","-","L","e","n","g","t","h",":"," ","2",CR,LF,CR,LF,"a","b","c","d","e","f">>
S_post_max == <<"P","O","S","T"," ","/","a"," ","H","T","T","P","/","1",".","1",CR,LF,"c","o","n","t","e","n","t","-","l","e","n","g","t","h",":"," ","4",CR,LF,CR,LF,"a","b","c","d">>
S_post_short == <<"P","O","S","T"," ","/","a"," ","H","T","T","P","/","1",".","1",CR,LF,"C","o","n","t","e","n","t","-","L","e","n","g","t","h",":"," ","3",CR,LF,CR,LF,"a","b">>
S_post_nocl == <<"P","O","S","T"," ","/","a"," ","H","T","T","P","/","1",".","1",CR,LF,CR,LF,"x","y","z">>
S_post_two_cl == <<"P","O","S","T"," ","/","a"," ","H","T","T","P","/","1",".","1",CR,LF,"C","o","n","t","e","n","t","-","L","e","n","g","t","h",":"," ","1",CR,LF,"C","O","N","T","E","N","T","-","L","E","N","G","T","H",":"," "," ","2"," ",CR,LF,CR,LF,"a","b">>
S_body_over == <<"P","O","S","T"," ","/","a"," ","H","T","T","P","/","1",".","1",CR,LF,"C","o","n","t","e","n","t","-","L","e","n","g","t","h",":"," ","5",CR,LF,CR,LF,"a","b","c","d","e">>
S_cl_overflow == <<"P","O","S","T"," ","/","a"," ","H","T","T","P","/","1",".","1",CR,LF,"C","o","n","t","e","n","t","-","L","e","n","g","t","h",":"," ","9","9","9",CR,LF,CR,LF,"a","b">>
S_cl_bad == <<"P","O","S","T"," ","/","a"," ","H","T","T","P","/","1",".","1",CR,LF,"C","o","n","t","e","n","t","-","L","e","n","g","t","h",":"," ","x",CR,LF,CR,LF,"a","b">>
S_malformed == <<"G","E","T"," ","/",CR,LF,CR,LF>>
S_bad_utf8 == <<"G","E","T"," ","/",BAD_BYTE," ","H","T","T","P","/","1",".","1",CR,LF,CR,LF>>
S_noterm == <<"G","E","T"," ","/"," ","H","T","T","P","/","1",".","1",CR,LF,"H","o","s","t",":"," ","c",CR,LF>>
\* a head of 69 bytes: larger than MAX_HEADER_BYTES
S_head_big == <<"G","E","T"," ","/","a"," ","H","T","T","P","/","1",".","1",CR,LF,"X","-","P","a","d",":"," ">> \o Pad(45) \o CRLF \o CRLF
\* a head of 62 bytes: within MAX_HEADER_BYTES, past it with its terminator
S_head_62 == <<"G","E","T"," ","/","a"," ","H","T","T","P","/","1",".","1",CR,LF,"X","-","P","a","d",":"," ">> \o Pad(38) \o CRLF \o CRLF
\* a head of 58 bytes, 62 with its terminator, followed by a body of 4
S_head_58_body == <<"P","O","S","T"," ","/","a"," ","H","T","T","P","/","1",".","1",CR,LF,"C","o","n","t","e","n","t","-","L","e","n","g","t","h",":"," ","4",CR,LF,"X","-","P","a","d",":"," ">> \o Pad(14) \o CRLF \o CRLF \o <<"a","b","c","d">>

\* two requests sent back to back on one connection
S_pipelined == <<"G","E","T"," ","/","s","t","a","t","e"," ","H","T","T","P","/","1",".","1",CR,LF,CR,LF,"G","E","T"," ","/","s","t","a","t","e"," ","H","T","T","P","/","1",".","1",CR,LF,CR,LF>>
\* the iters parameter after another parameter
S_compute_second == <<"G","E","T"," ","/","c","o","m","p","u","t","e","?","x","=","1","&","i","t","e","r","s","=","7"," ","H","T","T","P","/","1",".","1",CR,LF,CR,LF>>
\* the iters parameter given twice
S_compute_twice == <<"G","E","T"," ","/","c","o","m","p","u","t","e","?","i","t","e","r","s","=","3","&","i","t","e","r","s","=","4"," ","H","T","T","P","/","1",".","1",CR,LF,CR,LF>>
\* an iters parameter above U64_MAX
S_compute_big == <<"G","E","T"," ","/","c","o","m","p","u","t","e","?","i","t","e","r","s","=","1","0","0","0","0","0"," ","H","T","T","P","/","1",".","1",CR,LF,CR,LF>>
\* the byte streams a client may send before it stops sending
ClientStreams ==
  { <<>>, S_health, S_hello, S_hello_q, S_compute, S_compute_2, S_compute_abc,
    S_state, S_statex, S_healthz, S_get_a, S_users, S_post_state,
    S_post_compute, S_post_excess, S_post_max, S_post_short, S_post_nocl,
    S_post_two_cl, S_body_over, S_cl_overflow, S_cl_bad, S_malformed,
    S_bad_utf8, S_noterm, S_head_big, S_head_62, S_head_58_body,
    S_pipelined, S_compute_second, S_compute_twice, S_compute_big }

U_ok == <<"H","T","T","P","/","1",".","1"," ","2","0","0"," ","O","K",CR,LF,"C","o","n","t","e","n","t","-","L","e","n","g","t","h",":"," ","2",CR,LF,"X","-","B",":"," ","1",CR,LF,CR,LF,"h","i">>
U_dup == <<"H","T","T","P","/","1",".","1"," ","4","0","4"," ","N","F",CR,LF,"c","o","n","t","e","n","t","-","l","e","n","g","t","h",":"," ","9",CR,LF,"C","O","N","N","E","C","T","I","O","N",":"," ","k","e","e","p","-","a","l","i","v","e",CR,LF,"x","-","g","a","t","e","w","a","y","-","v","a","r","i","a","n","t",":"," ","e","v","i","l",CR,LF,CR,LF,"n","f">>
U_body_crlf == <<"H","T","T","P","/","1",".","1"," ","2","0","0"," ","O","K",CR,LF,CR,LF,"a",CR,LF,CR,LF,"b">>
U_bin == <<"H","T","T","P","/","1",".","0"," ","5","0","0"," ","E",CR,LF,"X","-","U","p","s","t","r","e","a","m","-","S","t","a","t","u","s",":"," ","1",CR,LF,CR,LF,BAD_BYTE>>
U_nohead == <<"H","T","T","P","/","1",".","1"," ","2","0","0"," ","O","K",CR,LF,"X","-","B",":"," ","1",CR,LF>>
U_nostatus == <<"H","T","T","P","/","1",".","1",CR,LF,CR,LF,"h","i">>
U_badstatus == <<"H","T","T","P","/","1",".","1"," ","a","b","c",CR,LF,CR,LF,"h","i">>
U_bigstatus == <<"H","T","T","P","/","1",".","1"," ","7","0","0","0","0",CR,LF,CR,LF,"h","i">>
U_badutf8 == <<"H","T","T","P","/","1",".","1"," ","2","0","0"," ",BAD_BYTE,CR,LF,CR,LF,"h","i">>
\* a response of exactly MAX_RESP_BYTES bytes, and one byte more
U_exact == <<"H","T","T","P","/","1",".","1"," ","2","0","0"," ","O","K",CR,LF,CR,LF>> \o Pad(MAX_RESP_BYTES - 19)
U_big == U_exact \o <<"y">>

\* a status code written with a leading zero
U_zero_status == <<"H","T","T","P","/","1",".","1"," ","0","2","0","0"," ","O","K",CR,LF,CR,LF,"z">>
\* the byte streams the upstream may send before it stops sending
UpstreamResponses ==
  { <<>>, U_ok, U_dup, U_body_crlf, U_bin, U_nohead, U_nostatus, U_badstatus,
    U_bigstatus, U_badutf8, U_exact, U_big, U_zero_status }

\* UPSTREAM_URL = http://<UP_HOST><rest>
UP_HOST == <<"u","p">>
UrlRests == { <<>>, <<"/","v","1","/">> }

\* the lengths a read call on the upstream may return when left bytes are
\* still to come: a full buffer or a short read
UpstreamReadLens(left) ==
  {Min(RESP_TMP_LEN, left), Min(UpShortRead, left)} \ {0}

\* the lengths of the prefix a failed write_all may have written
WritePrefixLens(bytes) == {0, 1, Len(bytes) - 1} \cap (0..(Len(bytes) - 1))

(***************************************************************************)
(* State.                                                                  *)
(***************************************************************************)
VARIABLES
  variant,      \* GATEWAY_VARIANT of the running binary
  upstream,     \* the Upstream parsed at startup
  counter,      \* static COUNTER
  conns,        \* connections main's accept loop has taken
  pc,           \* where main / handle_client stands
  clientIn,     \* bytes of the client not yet read by the gateway
  lastRead,     \* what the latest read call on the client returned
  buf,          \* read_http_request: buf
  headFound,    \* read_http_request: the head loop has ended with break
  head,         \* read_http_request: head
  body,         \* read_http_request: body
  req,          \* the RequestLine parsed from head
  bodyReads,    \* read calls issued by the body loop
  upConns,      \* upstream connections opened for this connection
  upOpen,       \* the upstream TcpStream of handle_client is alive
  upSent,       \* bytes written to the upstream
  upIn,         \* bytes of the upstream not yet read by the gateway
  resp,         \* read_all_response: resp
  workload,     \* the handler the request was dispatched to
  payload,      \* the body produced by the handler, before the transform
  xforms,       \* wasm_transform invocations for this connection
  xf,           \* the child process and pipes of the latest invocation
  respBytes,    \* the response assembled for the client
  clientOut,    \* bytes written to the client
  clientOpen,   \* the client TcpStream has not been shut down or dropped
  result,       \* what handle_client returned: "none" while it runs
  stateReplies, \* bodies of the counter endpoint's responses fully written
  fn            \* the pure function under test and its input and output

cfgVars == <<variant, upstream>>
procVars == <<counter, conns, stateReplies>>
readVars == <<clientIn, lastRead, buf, headFound, head, body, req, bodyReads>>
upVars == <<upConns, upSent, upIn, resp>>
outVars == <<workload, payload, xforms, xf, respBytes>>
endVars == <<pc, clientOpen, result, clientOut, upOpen>>
vars == <<cfgVars, procVars, readVars, upVars, outVars, endVars, fn>>

NoFn == [op |-> "none", done |-> FALSE, out |-> <<>>, body |-> <<>>, c |-> 0,
         bytes |-> <<>>]

\* no child process: Command::spawn has not been called
NoProc == [spawns |-> 0, stdin |-> <<>>, closed |-> FALSE, waited |-> FALSE,
           status |-> "none", stdout |-> <<>>]

\* the state of a connection that has just been accepted
FreshConnection ==
  /\ lastRead = "none" /\ buf = <<>> /\ headFound = FALSE /\ head = <<>>
  /\ body = <<>> /\ req = NoRequest /\ bodyReads = 0
  /\ upConns = 0 /\ upSent = <<>> /\ upIn = <<>> /\ resp = <<>>
  /\ workload = <<>> /\ payload = <<>> /\ xforms = 0 /\ xf = NoProc
  /\ upOpen = FALSE
  /\ respBytes = <<>> /\ clientOut = <<>> /\ result = "none"

Init ==
  /\ variant \in Variants
  /\ upstream \in {parse_upstream(UP_HOST, rest) : rest \in UrlRests}
  /\ counter = 0
  /\ conns = 0
  /\ stateReplies = <<>>
  /\ pc = "accept"
  /\ clientIn = <<>>
  /\ clientOpen = FALSE
  /\ FreshConnection
  /\ fn = NoFn

(***************************************************************************)
(* main: the accept loop.                                                  *)
(***************************************************************************)
\* Accept with the next client taken while handle_client is still running
Accept_WhileHandling ==
  /\ conns < MaxConns
  /\ conns' = conns + 1
  /\ clientIn' \in ClientStreams
  /\ clientOpen' = TRUE
  /\ pc' = "read_head"
  /\ lastRead' = "none" /\ buf' = <<>> /\ headFound' = FALSE /\ head' = <<>>
  /\ body' = <<>> /\ req' = NoRequest /\ bodyReads' = 0
  /\ upConns' = 0 /\ upSent' = <<>> /\ upIn' = <<>> /\ resp' = <<>>
  /\ workload' = <<>> /\ payload' = <<>> /\ xforms' = 0 /\ xf' = NoProc
  /\ upOpen' = FALSE
  /\ respBytes' = <<>> /\ clientOut' = <<>> /\ result' = "none"
  /\ UNCHANGED <<cfgVars, counter, stateReplies, fn>>

\* listener.incoming() yields the next client once handle_client has
\* returned for the one before
Accept ==
  /\ pc \in {"accept", "done"}
  /\ conns < MaxConns
  /\ conns' = conns + 1
  /\ clientIn' \in ClientStreams
  /\ clientOpen' = TRUE
  /\ pc' = "read_head"
  /\ lastRead' = "none" /\ buf' = <<>> /\ headFound' = FALSE /\ head' = <<>>
  /\ body' = <<>> /\ req' = NoRequest /\ bodyReads' = 0
  /\ upConns' = 0 /\ upSent' = <<>> /\ upIn' = <<>> /\ resp' = <<>>
  /\ workload' = <<>> /\ payload' = <<>> /\ xforms' = 0 /\ xf' = NoProc
  /\ upOpen' = FALSE
  /\ respBytes' = <<>> /\ clientOut' = <<>> /\ result' = "none"
  /\ UNCHANGED <<cfgVars, counter, stateReplies, fn>>

\* FailWith with an error-status response written to the client first
FailWith_ErrorResponse(e) ==
  /\ result' = e
  /\ pc' = "done"
  /\ clientOpen' = FALSE
  /\ upOpen' = FALSE
  /\ clientOut' = <<"H","T","T","P","/","1",".","1"," ","5","0","2">> \o CRLF \o CRLF

\* handle_client returns Err(e) before any write to the client: main logs
\* the error and drops the client stream; the upstream stream, a local of
\* handle_client, is dropped at the return
FailWith(e) ==
  /\ result' = e
  /\ pc' = "done"
  /\ clientOpen' = FALSE
  /\ upOpen' = FALSE
  /\ clientOut' = clientOut

(***************************************************************************)
(* read_http_request                                                       *)
(***************************************************************************)
\* AfterHeadLoop with the bytes after the terminator kept as the body of
\* a request without content_length
AfterHeadLoop_KeepsRemainder(b) ==
  LET header_end == find_double_crlf(b)
      hd == SubSeq(b, 1, header_end)
      remainder == SubSeq(b, header_end + 5, Len(b))
      p == parse_request_head(hd)
  IN IF p.err # ""
     THEN [err |-> p.err, head |-> hd, req |-> NoRequest, body |-> <<>>]
     ELSE IF p.req.content_length > 0
     THEN IF p.req.content_length > MAX_REQ_BODY_BYTES
          THEN [err |-> ErrBodyTooLarge, head |-> hd, req |-> p.req, body |-> <<>>]
          ELSE [err |-> "", head |-> hd, req |-> p.req, body |-> remainder]
     ELSE [err |-> "", head |-> hd, req |-> p.req, body |-> remainder]

\* AfterHeadLoop with a content_length equal to the ceiling rejected too
AfterHeadLoop_CeilingExcluded(b) ==
  LET header_end == find_double_crlf(b)
      hd == SubSeq(b, 1, header_end)
      remainder == SubSeq(b, header_end + 5, Len(b))
      p == parse_request_head(hd)
  IN IF p.err # ""
     THEN [err |-> p.err, head |-> hd, req |-> NoRequest, body |-> <<>>]
     ELSE IF p.req.content_length > 0
     THEN IF p.req.content_length >= MAX_REQ_BODY_BYTES
          THEN [err |-> ErrBodyTooLarge, head |-> hd, req |-> p.req, body |-> <<>>]
          ELSE [err |-> "", head |-> hd, req |-> p.req, body |-> remainder]
     ELSE [err |-> "", head |-> hd, req |-> p.req, body |-> <<>>]

\* what follows the head loop, up to the body loop: [err, head, req, body]
AfterHeadLoop(b) ==
  LET header_end == find_double_crlf(b)
      hd == SubSeq(b, 1, header_end)
      remainder == SubSeq(b, header_end + 5, Len(b))
      p == parse_request_head(hd)
  IN IF p.err # ""
     THEN [err |-> p.err, head |-> hd, req |-> NoRequest, body |-> <<>>]
     ELSE IF p.req.content_length > 0
     THEN IF p.req.content_length > MAX_REQ_BODY_BYTES
          THEN [err |-> ErrBodyTooLarge, head |-> hd, req |-> p.req, body |-> <<>>]
          ELSE [err |-> "", head |-> hd, req |-> p.req, body |-> remainder]
     ELSE [err |-> "", head |-> hd, req |-> p.req, body |-> <<>>]

\* HeadLoopStep with the search for the terminator before the ceiling
HeadLoopStep_SearchFirst(b) ==
  IF find_double_crlf(b) >= 0 THEN "break"
  ELSE IF Len(b) > MAX_HEADER_BYTES THEN "too_large"
  ELSE "continue"

\* the head loop after buf.extend_from_slice: the ceiling, then the search
\* for the terminator
HeadLoopStep(b) ==
  IF Len(b) > MAX_HEADER_BYTES THEN "too_large"
  ELSE IF find_double_crlf(b) < 0 THEN "continue"
  ELSE "break"

\* BodyLoopContinues with the loop left as soon as the body has a byte
BodyLoopContinues_UntilFirstByte(bd, content_length) ==
  bd = <<>> /\ content_length > 0

\* the condition of the body loop: while body.len() < req.content_length
BodyLoopContinues(bd, content_length) == Len(bd) < content_length

\* one pass of the head loop: one read call on the client
ReadHead ==
  /\ pc = "read_head"
  /\ UNCHANGED <<cfgVars, procVars, upVars, outVars, fn, bodyReads>>
  /\ \/ \* the client sends nothing more and does not close: the read
        \* times out
        /\ clientIn = <<>>
        /\ lastRead' = "err"
        /\ FailWith(ErrIo)
        /\ UNCHANGED <<clientIn, buf, headFound, head, body, req>>
     \/ \* the client has closed: n == 0
        /\ clientIn = <<>>
        /\ lastRead' = "eof"
        /\ FailWith(ErrClosedEarly)
        /\ UNCHANGED <<clientIn, buf, headFound, head, body, req>>
     \/ \* n bytes arrive
        \E n \in 1..Min(REQ_TMP_LEN, Len(clientIn)) :
          LET b == buf \o SubSeq(clientIn, 1, n)
          IN /\ lastRead' = "data"
             /\ clientIn' = SubSeq(clientIn, n + 1, Len(clientIn))
             /\ buf' = b
             /\ IF HeadLoopStep(b) = "too_large"
                THEN /\ FailWith(ErrHeadersTooLarge)
                     /\ UNCHANGED <<headFound, head, body, req>>
                ELSE IF HeadLoopStep(b) = "continue"
                THEN UNCHANGED <<headFound, head, body, req, endVars>>
                ELSE LET a == AfterHeadLoop(b)
                     IN /\ headFound' = TRUE
                        /\ head' = a.head
                        /\ req' = a.req
                        /\ body' = a.body
                        /\ IF a.err # "" THEN FailWith(a.err)
                           ELSE /\ pc' = IF BodyLoopContinues(a.body, a.req.content_length)
                                        THEN "read_body" ELSE "dispatch"
                                /\ UNCHANGED <<clientOpen, result, clientOut, upOpen>>

\* BodyAfterChunk with the chunk thrown away
BodyAfterChunk_Discards(bd, chunk, content_length) == bd

\* the body after one more chunk: extend, then truncate when past
\* content_length
BodyAfterChunk(bd, chunk, content_length) ==
  IF Len(bd \o chunk) > content_length
  THEN SubSeq(bd \o chunk, 1, content_length)
  ELSE bd \o chunk

\* one pass of the body loop: one read call on the client
ReadBody ==
  /\ pc = "read_body"
  /\ bodyReads' = bodyReads + 1
  /\ UNCHANGED <<cfgVars, procVars, upVars, outVars, fn, buf, headFound, head, req>>
  /\ \/ /\ clientIn = <<>>
        /\ lastRead' = "err"
        /\ FailWith(ErrIo)
        /\ UNCHANGED <<clientIn, body>>
     \/ /\ clientIn = <<>>
        /\ lastRead' = "eof"
        /\ FailWith(ErrIncompleteBody)
        /\ UNCHANGED <<clientIn, body>>
     \/ \E n \in 1..Min(REQ_TMP_LEN, Len(clientIn)) :
          LET bd == BodyAfterChunk(body, SubSeq(clientIn, 1, n), req.content_length)
          IN /\ lastRead' = "data"
             /\ clientIn' = SubSeq(clientIn, n + 1, Len(clientIn))
             /\ body' = bd
             /\ pc' = IF BodyLoopContinues(bd, req.content_length)
                      THEN "read_body" ELSE "dispatch"
             /\ UNCHANGED <<clientOpen, result, clientOut, upOpen>>

(***************************************************************************)
(* handle_client: dispatch                                                 *)
(***************************************************************************)
\* Route with the health check matched by prefix
Route_HealthByPrefix(r) ==
  IF r.method = STR_GET /\ starts_with(r.path, STR_health) THEN WL_health
  ELSE IF r.method = STR_GET /\ (r.path = STR_slash \/ starts_with(r.path, STR_slash_q))
  THEN WL_hello
  ELSE IF r.method = STR_GET /\ starts_with(r.path, STR_compute) THEN WL_compute
  ELSE IF r.method = STR_GET /\ starts_with(r.path, STR_state) THEN WL_state
  ELSE WL_proxy

\* the chain of if statements of handle_client: the workload label of the
\* branch taken
Route(r) ==
  IF r.method = STR_GET /\ r.path = STR_health THEN WL_health
  ELSE IF r.method = STR_GET /\ (r.path = STR_slash \/ starts_with(r.path, STR_slash_q))
  THEN WL_hello
  ELSE IF r.method = STR_GET /\ starts_with(r.path, STR_compute) THEN WL_compute
  ELSE IF r.method = STR_GET /\ starts_with(r.path, STR_state) THEN WL_state
  ELSE WL_proxy

\* LocalPayload with the counter read after the increment
LocalPayload_PostIncrement(wl, r, c) ==
  IF wl = WL_health THEN STR_OK
  ELSE IF wl = WL_hello THEN STR_hello
  ELSE IF wl = WL_compute THEN cpu_heavy(ItersOf(r.path))
  ELSE to_string(c + 1)

\* the body a local handler produces before any transform; c is the value
\* COUNTER.fetch_add(1) returned
LocalPayload(wl, r, c) ==
  IF wl = WL_health THEN STR_OK
  ELSE IF wl = WL_hello THEN STR_hello
  ELSE IF wl = WL_compute THEN cpu_heavy(ItersOf(r.path))
  ELSE to_string(c)

\* UsesTransform with the health branch passing its body through too
UsesTransform_HealthToo(v, wl) == v = VARIANT_wasm_host

\* whether the branch passes its body through wasm_transform
UsesTransform(v, wl) == v = VARIANT_wasm_host /\ wl # WL_health

\* AssembleResponse with the upstream's body, not the transformed one, in
\* the proxied response
AssembleResponse_UpstreamBody(v, up, wl, rsp, bd) ==
  IF wl = WL_proxy
  THEN LET sp == split_http_response(rsp)
       IN rebuild_response_with_extra_headers(v, sp.head, sp.body, WL_proxy,
            proxy_headers(up, parse_status_code_from_head(sp.head)))
  ELSE build_response(v, STATUS_200, bd, wl, <<>>)

\* the response for a body that is ready to be sent
AssembleResponse(v, up, wl, rsp, bd) ==
  IF wl = WL_proxy
  THEN LET hd == split_http_response(rsp).head
       IN rebuild_response_with_extra_headers(v, hd, bd, WL_proxy,
            proxy_headers(up, parse_status_code_from_head(hd)))
  ELSE build_response(v, STATUS_200, bd, wl, <<>>)

\* CounterAfter with the increment made by every local endpoint
CounterAfter_EveryLocal(wl, c) == IF wl # WL_proxy THEN c + 1 ELSE c

\* COUNTER after the branch: COUNTER.fetch_add(1, Ordering::SeqCst) is in
\* the counter endpoint's branch alone
CounterAfter(wl, c) == IF wl = WL_state THEN c + 1 ELSE c

\* from read_http_request's return to the branch taken
Dispatch ==
  /\ pc = "dispatch"
  /\ LET wl == Route(parse_request_head(head).req)
     IN /\ workload' = wl
        /\ counter' = CounterAfter(wl, counter)
        /\ IF wl = WL_proxy
           THEN /\ pc' = "connect"
                /\ UNCHANGED <<payload, respBytes>>
           ELSE /\ payload' = LocalPayload(wl, req, counter)
                /\ IF UsesTransform(variant, wl)
                   THEN /\ pc' = "transform"
                        /\ UNCHANGED respBytes
                   ELSE /\ pc' = "write"
                        /\ respBytes' = AssembleResponse(variant, upstream, wl, resp,
                                                         LocalPayload(wl, req, counter))
  /\ UNCHANGED <<cfgVars, conns, stateReplies, readVars, upVars, xforms, xf,
                 clientOut, clientOpen, result, upOpen, fn>>

(***************************************************************************)
(* handle_client: the proxy path                                           *)
(***************************************************************************)
\* TcpStream::connect to the upstream
ConnectUpstream ==
  /\ pc = "connect"
  /\ upConns' = upConns + 1
  /\ UNCHANGED <<cfgVars, procVars, readVars, outVars, fn, upSent, resp>>
  /\ \/ /\ FailWith(ErrUpstreamConnect)
        /\ UNCHANGED upIn
     \/ /\ upIn' \in UpstreamResponses
        /\ pc' = "send_upstream"
        /\ upOpen' = TRUE
        /\ UNCHANGED <<clientOpen, result, clientOut>>

\* build_forwarded_request, then write_all and flush on the upstream
SendUpstream ==
  /\ pc = "send_upstream"
  /\ UNCHANGED <<cfgVars, procVars, readVars, outVars, fn, upConns, upIn, resp>>
  /\ LET forwarded == build_forwarded_request(req, head, body, upstream)
     IN \/ /\ upSent' = forwarded
           /\ pc' = "read_upstream"
           /\ UNCHANGED <<clientOpen, result, clientOut, upOpen>>
        \/ \E k \in WritePrefixLens(forwarded) :
             /\ upSent' = SubSeq(forwarded, 1, k)
             /\ FailWith(ErrIo)

\* what follows read_all_response: the error, "" when the response has a
\* head and a status code
UpstreamResponseError(rsp) ==
  LET sp == split_http_response(rsp)
  IN IF ~sp.ok THEN ErrMalformedUpstream
     ELSE IF parse_status_code_from_head(sp.head) < 0 THEN ErrMalformedUpstream
     ELSE ""

\* ResponseOverCap with a response of exactly the cap refused too
ResponseOverCap_CapExcluded(r) == Len(r) >= MAX_RESP_BYTES

\* read_all_response's test after resp.extend_from_slice
ResponseOverCap(r) == Len(r) > MAX_RESP_BYTES

\* ReadLoopBreaks with the loop left as soon as the response read so far
\* holds a head terminator
ReadLoopBreaks_AtHeadTerminator(n, r) == n = 0 \/ find_double_crlf(r) >= 0

\* read_all_response leaves its loop: if n == 0 { break; }, with r the
\* response read so far
ReadLoopBreaks(n, r) == n = 0

\* one pass of read_all_response's loop: one read call on the upstream;
\* at end of stream, the split and the status code
ReadUpstream ==
  /\ pc = "read_upstream"
  /\ UNCHANGED <<cfgVars, procVars, readVars, fn, upConns, upSent, workload,
                 xforms, xf>>
  /\ \/ \* the upstream sends nothing more and does not close: the read
        \* times out
        /\ upIn = <<>>
        /\ FailWith(ErrIo)
        /\ UNCHANGED <<upIn, resp, payload, respBytes>>
     \/ \* the read returns n: 0 once the upstream has closed, with
        \* nothing left to read, and the length of the bytes that arrive
        \* otherwise
        \E n \in (IF upIn = <<>> THEN {0} ELSE {}) \cup UpstreamReadLens(Len(upIn)) :
          LET r == resp \o SubSeq(upIn, 1, n)
          IN /\ upIn' = SubSeq(upIn, n + 1, Len(upIn))
             /\ resp' = r
             /\ IF ReadLoopBreaks(n, r)
                THEN IF UpstreamResponseError(r) # ""
                     THEN /\ FailWith(UpstreamResponseError(r))
                          /\ UNCHANGED <<payload, respBytes>>
                     ELSE /\ payload' = split_http_response(r).body
                          /\ UNCHANGED <<clientOpen, result, clientOut, upOpen>>
                          /\ IF UsesTransform(variant, WL_proxy)
                             THEN /\ pc' = "transform"
                                  /\ UNCHANGED respBytes
                             ELSE /\ pc' = "write"
                                  /\ respBytes' = AssembleResponse(variant, upstream, WL_proxy, r,
                                                                   split_http_response(r).body)
                ELSE /\ UNCHANGED <<payload, respBytes>>
                     /\ IF ResponseOverCap(r)
                        THEN FailWith(ErrResponseTooLarge)
                        ELSE UNCHANGED endVars

(***************************************************************************)
(* wasm_transform (gateway_host only)                                      *)
(***************************************************************************)
\* what the operating system and the child do during one invocation:
\* whether spawn succeeds, how many bytes of the input the child's stdin
\* takes before a write fails (all of them: no write fails), whether
\* waiting succeeds, whether the exit status is zero
TransformRuns(input) ==
  {[spawn |-> FALSE, written |-> 0, wait |-> FALSE, zero |-> FALSE]}
  \cup {[spawn |-> TRUE, written |-> k, wait |-> FALSE, zero |-> FALSE] :
          k \in WritePrefixLens(input)}
  \cup {[spawn |-> TRUE, written |-> Len(input), wait |-> FALSE, zero |-> FALSE]}
  \cup {[spawn |-> TRUE, written |-> Len(input), wait |-> TRUE, zero |-> z] :
          z \in BOOLEAN}

\* wasm_transform with the exit status of the child left unexamined
wasm_transform_StatusIgnored(input, run) ==
  IF ~run.spawn
  THEN [err |-> ErrTransformFailed, out |-> <<>>,
        proc |-> [NoProc EXCEPT !.status = "not_started"]]
  ELSE IF run.written < Len(input)
  THEN [err |-> ErrTransformFailed, out |-> <<>>,
        proc |-> [NoProc EXCEPT !.spawns = 1, !.closed = TRUE,
                                !.stdin = SubSeq(input, 1, run.written)]]
  ELSE IF ~run.wait
  THEN [err |-> ErrTransformFailed, out |-> <<>>,
        proc |-> [NoProc EXCEPT !.spawns = 1, !.closed = TRUE, !.stdin = input]]
  ELSE [err |-> "", out |-> IF run.zero THEN gateway_wasm_main(input) ELSE <<>>,
        proc |-> [NoProc EXCEPT !.spawns = 1, !.closed = TRUE, !.stdin = input,
                                !.waited = TRUE,
                                !.status = IF run.zero THEN "zero" ELSE "nonzero",
                                !.stdout = IF run.zero THEN gateway_wasm_main(input)
                                           ELSE <<>>]]

\* wasm_transform: [err |-> "" | error, out |-> Vec<u8>, proc |-> the child
\* and its pipes as the invocation leaves them]; the child runs gateway_wasm
wasm_transform(input, run) ==
  IF ~run.spawn
  THEN [err |-> ErrTransformFailed, out |-> <<>>,
        proc |-> [NoProc EXCEPT !.status = "not_started"]]
  ELSE IF run.written < Len(input)
  THEN [err |-> ErrTransformFailed, out |-> <<>>,
        proc |-> [NoProc EXCEPT !.spawns = 1, !.closed = TRUE,
                                !.stdin = SubSeq(input, 1, run.written)]]
  ELSE IF ~run.wait
  THEN [err |-> ErrTransformFailed, out |-> <<>>,
        proc |-> [NoProc EXCEPT !.spawns = 1, !.closed = TRUE, !.stdin = input]]
  ELSE IF ~run.zero
  THEN [err |-> ErrTransformFailed, out |-> <<>>,
        proc |-> [NoProc EXCEPT !.spawns = 1, !.closed = TRUE, !.stdin = input,
                                !.waited = TRUE, !.status = "nonzero"]]
  ELSE [err |-> "", out |-> gateway_wasm_main(input),
        proc |-> [NoProc EXCEPT !.spawns = 1, !.closed = TRUE, !.stdin = input,
                                !.waited = TRUE, !.status = "zero",
                                !.stdout = gateway_wasm_main(input)]]

\* one call of wasm_transform on the handler's body, then the response
Transform ==
  /\ pc = "transform"
  /\ xforms' = xforms + 1
  /\ UNCHANGED <<cfgVars, procVars, readVars, upVars, fn, workload, payload>>
  /\ \E run \in TransformRuns(payload) :
       LET t == wasm_transform(payload, run)
       IN /\ xf' = t.proc
          /\ IF t.err # ""
             THEN /\ FailWith(t.err)
                  /\ UNCHANGED respBytes
             ELSE /\ respBytes' = AssembleResponse(variant, upstream, workload,
                                                   resp, t.out)
                  /\ pc' = "write"
                  /\ UNCHANGED <<clientOpen, result, clientOut, upOpen>>

(***************************************************************************)
(* handle_client: the response                                             *)
(***************************************************************************)
\* the body of a response the client has received in full: the bytes after
\* its first head terminator
BodyOf(bytes) == split_http_response(bytes).body

\* WriteErrorResult with every handler ignoring a failed write
WriteErrorResult_Ignored(wl) == "ok"

\* what handle_client returns when client.write_all fails: the health
\* branch ignores the error (.ok()), the others return it (?)
WriteErrorResult(wl) == IF wl = WL_health THEN "ok" ELSE ErrClientWrite

\* client.write_all, flush, shutdown; handle_client returns
WriteClient ==
  /\ pc = "write"
  /\ pc' = "done"
  /\ clientOpen' = FALSE
  /\ upOpen' = FALSE
  /\ UNCHANGED <<cfgVars, counter, conns, readVars, upVars, fn, workload,
                 payload, xforms, xf, respBytes>>
  /\ \/ /\ clientOut' = respBytes
        /\ result' = "ok"
        /\ stateReplies' = IF workload = WL_state
                           THEN Append(stateReplies, BodyOf(respBytes))
                           ELSE stateReplies
     \/ \E k \in WritePrefixLens(respBytes) :
          /\ clientOut' = SubSeq(respBytes, 1, k)
          /\ result' = WriteErrorResult(workload)
          /\ UNCHANGED stateReplies

Next ==
  \/ Accept
  \/ ReadHead
  \/ ReadBody
  \/ Dispatch
  \/ ConnectUpstream
  \/ SendUpstream
  \/ ReadUpstream
  \/ Transform
  \/ WriteClient

Spec == Init /\ [][Next]_vars

\* Spec with a handler that keeps running: the thread of main is scheduled,
\* every socket call returns (set_read_timeout and set_write_timeout bound
\* each of them) and every child process exits.  ReadHead, Dispatch and
\* SendUpstream have a step in every state of their pc: a read call
\* returns bytes, an end of stream or an error, the dispatch is a total
\* function of the parsed request, a write succeeds or fails.  Nothing
\* makes the next client arrive: Accept has no fairness.  For these three
\* steps weak fairness is written out, with ENABLED <<A>>_vars as the
\* state predicate on pc it is equivalent to.
LiveSpec ==
  /\ Init /\ [][Next]_vars
  /\ ([]<>(pc # "read_head") \/ []<><<ReadHead>>_vars)
  /\ WF_vars(ReadBody)
  /\ ([]<>(pc # "dispatch") \/ []<><<Dispatch>>_vars)
  /\ WF_vars(ConnectUpstream)
  /\ ([]<>(pc # "send_upstream") \/ []<><<SendUpstream>>_vars)
  /\ WF_vars(ReadUpstream)
  /\ WF_vars(Transform)
  /\ WF_vars(WriteClient)

(***************************************************************************)
(* The rewriting functions on their own: build_forwarded_request and the   *)
(* two response builders applied to inputs drawn from larger sets than     *)
(* the connections of Spec carry.                                          *)
(***************************************************************************)
\* the sequences of at most n elements of S
RECURSIVE SeqsUpTo(_, _)
SeqsUpTo(S, n) ==
  IF n = 0 THEN {<<>>}
  ELSE SeqsUpTo(S, n - 1)
         \cup {Append(s, x) : s \in {t \in SeqsUpTo(S, n - 1) : Len(t) = n - 1}, x \in S}

\* lines joined by CRLF after a first line
RECURSIVE JoinLines(_, _)
JoinLines(first, lines) ==
  IF lines = <<>> THEN first
  ELSE JoinLines(first \o CRLF \o Head(lines), Tail(lines))

\* header lines, request targets and upstream URLs of the inputs
MaxFnLines == 2
MaxTargetLen == 3
L_host == <<"H","o","s","t",":"," ","c">>
L_host_lc == <<"h","o","s","t",":","d">>
L_host_uc == <<"H","O","S","T",":"," ","e">>
L_conn == <<"C","o","n","n","e","c","t","i","o","n",":"," ","k","e","e","p","-","a","l","i","v","e">>
L_conn_lc == <<"c","o","n","n","e","c","t","i","o","n",":"," ","u","p","g","r","a","d","e">>
L_xa == <<"X","-","A",":"," ","1">>
L_hostname == <<"H","o","s","t","n","a","m","e",":"," ","z">>
L_cl0 == <<"C","o","n","t","e","n","t","-","L","e","n","g","t","h",":"," ","0">>
RequestLines == {L_host, L_host_lc, L_host_uc, L_conn, L_conn_lc, L_xa, L_hostname, L_cl0}

R_status_200 == <<"H","T","T","P","/","1",".","1"," ","2","0","0"," ","O","K">>
R_status_404 == <<"H","T","T","P","/","1",".","0"," ","4","0","4"," ","N","o","t"," ","F","o","u","n","d">>
R_cl == <<"C","o","n","t","e","n","t","-","L","e","n","g","t","h",":"," ","9">>
R_cl_lc == <<"c","o","n","t","e","n","t","-","l","e","n","g","t","h",":"," ","1">>
R_conn == <<"C","O","N","N","E","C","T","I","O","N",":"," ","k","e","e","p","-","a","l","i","v","e">>
R_conn_lc == <<"c","o","n","n","e","c","t","i","o","n",":"," ","c","l","o","s","e">>
R_variant == <<"X","-","G","a","t","e","w","a","y","-","V","a","r","i","a","n","t",":"," ","e","v","i","l">>
R_workload == <<"x","-","g","a","t","e","w","a","y","-","w","o","r","k","l","o","a","d",":"," ","e","v","i","l">>
R_url == <<"X","-","U","P","S","T","R","E","A","M","-","U","R","L",":"," ","h","t","t","p",":","/","/","e","v","i","l">>
R_ustatus == <<"x","-","u","p","s","t","r","e","a","m","-","s","t","a","t","u","s",":"," ","1">>
R_xb == <<"X","-","B",":"," ","1">>
R_ctype == <<"C","o","n","t","e","n","t","-","T","y","p","e",":"," ","t","e","x","t","/","h","t","m","l">>
R_cr == <<"X","-","C",":"," ","2",CR>>
R_lf == <<LF,"X","-","D",":"," ","3">>
ResponseLines == {R_cl, R_cl_lc, R_conn, R_conn_lc, R_variant, R_workload, R_url,
                  R_ustatus, R_xb, R_ctype, R_cr, R_lf}

T_users == <<"/","u","s","e","r","s","?","x","=","1">>
H_post_a == <<"P","O","S","T"," ","/","a"," ","H","T","T","P","/","1",".","1">>
HTTP_1_1 == <<"H","T","T","P","/","1",".","1">>
U_v1 == <<"/","v","1">>
U_v1_slash == <<"/","v","1","/">>
U_a_b == <<"/","a","/","b">>
FnUrlRests == { <<>>, STR_slash, U_v1, U_v1_slash, U_a_b }
FnTargets == (SeqsUpTo({"/", "a", "?"}, MaxTargetLen) \ {<<>>}) \cup {T_users}

\* requests for build_forwarded_request: every target without headers, and
\* one target with every sequence of header lines
ForwardInputs ==
  {[op |-> "forward", done |-> FALSE, out |-> <<>>, body |-> <<>>, c |-> 0,
    bytes |-> STR_GET \o <<" ">> \o t \o <<" ">> \o HTTP_1_1] : t \in FnTargets}
  \cup
  {[op |-> "forward", done |-> FALSE, out |-> <<>>, body |-> <<"h","i">>, c |-> 0,
    bytes |-> JoinLines(H_post_a, ls)] : ls \in SeqsUpTo(RequestLines, MaxFnLines)}

\* upstream responses for the proxy path's response rewriting
RewriteInputs ==
  {[op |-> "rewrite", done |-> FALSE, out |-> <<>>, body |-> <<>>, c |-> 0,
    bytes |-> JoinLines(st, ls) \o CRLF \o CRLF \o <<"h","i">>] :
      st \in {R_status_200, R_status_404}, ls \in SeqsUpTo(ResponseLines, MaxFnLines)}

\* local requests, with the value the Counter holds when they are served
BuildInputs ==
  {[op |-> "build", done |-> FALSE, out |-> <<>>, body |-> <<>>, c |-> k,
    bytes |-> STR_GET \o <<" ">> \o t \o <<" ">> \o HTTP_1_1] :
      t \in {STR_health, STR_slash, STR_compute, STR_state}, k \in {0, 9, 10}}

\* the body a handler's response carries: wasm_transform's output where the
\* branch calls it and it returns Ok, the handler's own body otherwise
TransformedBody(v, wl, bd) ==
  IF UsesTransform(v, wl) THEN gateway_wasm_main(bd) ELSE bd

InitFn ==
  /\ variant \in Variants
  /\ upstream \in {parse_upstream(UP_HOST, rest) : rest \in FnUrlRests}
  /\ counter = 0
  /\ conns = 0
  /\ stateReplies = <<>>
  /\ pc = "fn"
  /\ clientIn = <<>>
  /\ clientOpen = FALSE
  /\ FreshConnection
  /\ fn \in ForwardInputs \cup RewriteInputs \cup BuildInputs

\* parse_request_head, then build_forwarded_request
ApplyForward ==
  /\ pc = "fn" /\ fn.op = "forward" /\ ~fn.done
  /\ parse_request_head(fn.bytes).err = ""
  /\ fn' = [fn EXCEPT !.done = TRUE,
                      !.out = build_forwarded_request(parse_request_head(fn.bytes).req,
                                                      fn.bytes, fn.body, upstream)]
  /\ UNCHANGED <<cfgVars, procVars, readVars, upVars, outVars, endVars>>

\* the proxy path from read_all_response's return to the response
ApplyRewrite ==
  /\ pc = "fn" /\ fn.op = "rewrite" /\ ~fn.done
  /\ UpstreamResponseError(fn.bytes) = ""
  /\ fn' = [fn EXCEPT !.done = TRUE,
                      !.out = AssembleResponse(variant, upstream, WL_proxy, fn.bytes,
                                TransformedBody(variant, WL_proxy,
                                                split_http_response(fn.bytes).body))]
  /\ UNCHANGED <<cfgVars, procVars, readVars, upVars, outVars, endVars>>

\* a local branch from the parsed request to the response
ApplyBuild ==
  /\ pc = "fn" /\ fn.op = "build" /\ ~fn.done
  /\ parse_request_head(fn.bytes).err = ""
  /\ LET r == parse_request_head(fn.bytes).req
         wl == Route(r)
     IN /\ wl # WL_proxy
        /\ fn' = [fn EXCEPT !.done = TRUE,
                            !.out = AssembleResponse(variant, upstream, wl, <<>>,
                                      TransformedBody(variant, wl,
                                                      LocalPayload(wl, r, fn.c)))]
  /\ UNCHANGED <<cfgVars, procVars, readVars, upVars, outVars, endVars>>

NextFn == ApplyForward \/ ApplyRewrite \/ ApplyBuild

SpecFn == InitFn /\ [][NextFn]_vars

(***************************************************************************)
(* wasm_transform and gateway_wasm over their pipes                        *)
(***************************************************************************)
\* the largest capacity of a pipe, in bytes
MaxPipeCap == 3
\* the longest payload handed to wasm_transform
MaxPayloadLen == 4

\* the payloads handed to wasm_transform
PipePayloads ==
  {SubSeq(<<"a","b","c","d","e","f","g","h">>, 1, n) : n \in 0..MaxPayloadLen}

\* the parent and the child right after Command::spawn has returned Ok:
\* stdin, closed, waited, status and stdout as in NoProc; cap the capacity
\* of each pipe; at where wasm_transform stands; ret what it returned;
\* inPipe and outPipe the bytes in flight in the child's stdin and stdout
\* pipes; child where gateway_wasm's main stands; input its Vec; output
\* the bytes it has still to write; exit its exit status
SpawnedProc(c) ==
  [spawns |-> 1, stdin |-> <<>>, closed |-> FALSE, waited |-> FALSE,
   status |-> "none", stdout |-> <<>>,
   cap |-> c, at |-> "write", ret |-> "none",
   inPipe |-> <<>>, outPipe |-> <<>>,
   child |-> "read", input |-> <<>>, output |-> <<>>, exit |-> "none"]

\* wait_with_output with the parent's end of the child's stdin left as it is
StdinOpenAfterTake_Kept(open) == open

\* wait_with_output: the parent's end of the child's stdin is taken out of
\* the Child and dropped before anything is waited for
StdinOpenAfterTake(open) == FALSE

\* everything but the child process and its pipes
notProc ==
  <<cfgVars, procVars, readVars, upVars, workload, payload, xforms,
    respBytes, endVars, fn>>

InitPipe ==
  /\ variant = VARIANT_wasm_host
  /\ upstream = parse_upstream(UP_HOST, <<>>)
  /\ counter = 0
  /\ conns = 0
  /\ stateReplies = <<>>
  /\ pc = "pipes"
  /\ clientIn = <<>>
  /\ clientOpen = FALSE
  /\ lastRead = "none" /\ buf = <<>> /\ headFound = FALSE /\ head = <<>>
  /\ body = <<>> /\ req = NoRequest /\ bodyReads = 0
  /\ upConns = 0 /\ upSent = <<>> /\ upIn = <<>> /\ resp = <<>>
  /\ workload = <<>> /\ xforms = 1 /\ upOpen = FALSE
  /\ respBytes = <<>> /\ clientOut = <<>> /\ result = "none"
  /\ fn = NoFn
  /\ payload \in PipePayloads
  /\ xf \in {SpawnedProc(c) : c \in 1..MaxPipeCap}

\* stdin.write_all(input): one write call on the pipe.  It blocks while
\* the pipe is full and fails once the child has closed its end.
ParentWrite ==
  /\ pc = "pipes" /\ xf.at = "write"
  /\ Len(xf.stdin) < Len(payload)
  /\ UNCHANGED notProc
  /\ IF xf.child = "exited"
     THEN xf' = [xf EXCEPT !.at = "returned", !.ret = ErrTransformFailed,
                           !.closed = TRUE]
     ELSE /\ Len(xf.inPipe) < xf.cap
          /\ \E k \in 1..Min(xf.cap - Len(xf.inPipe), Len(payload) - Len(xf.stdin)) :
               LET chunk == SubSeq(payload, Len(xf.stdin) + 1, Len(xf.stdin) + k)
               IN xf' = [xf EXCEPT !.stdin = @ \o chunk, !.inPipe = @ \o chunk]

\* write_all has returned Ok; wait_with_output begins
ParentWaits ==
  /\ pc = "pipes" /\ xf.at = "write"
  /\ Len(xf.stdin) = Len(payload)
  /\ UNCHANGED notProc
  /\ xf' = [xf EXCEPT !.at = "wait", !.closed = ~StdinOpenAfterTake(TRUE)]

\* wait_with_output: one read call on the child's stdout
ParentRead ==
  /\ pc = "pipes" /\ xf.at = "wait"
  /\ xf.outPipe # <<>>
  /\ UNCHANGED notProc
  /\ \E k \in 1..Len(xf.outPipe) :
       xf' = [xf EXCEPT !.stdout = @ \o SubSeq(xf.outPipe, 1, k),
                        !.outPipe = SubSeq(@, k + 1, Len(@))]

\* wait_with_output: stdout and stderr are at end-of-file, the child is
\* reaped; wasm_transform examines the status and returns
ParentReaps ==
  /\ pc = "pipes" /\ xf.at = "wait"
  /\ xf.outPipe = <<>> /\ xf.child = "exited"
  /\ UNCHANGED notProc
  /\ xf' = [xf EXCEPT !.at = "returned", !.waited = TRUE, !.status = xf.exit,
                      !.ret = IF xf.exit = "zero" THEN "ok"
                              ELSE ErrTransformFailed]

\* gateway_wasm: one read call of read_to_end that returns bytes
ChildRead ==
  /\ pc = "pipes" /\ xf.child = "read"
  /\ xf.inPipe # <<>>
  /\ UNCHANGED notProc
  /\ \E k \in 1..Len(xf.inPipe) :
       xf' = [xf EXCEPT !.input = @ \o SubSeq(xf.inPipe, 1, k),
                        !.inPipe = SubSeq(@, k + 1, Len(@))]

\* gateway_wasm: read_to_end sees end-of-file, the pipe being empty and
\* its writing end closed; the output is built
ChildEof ==
  /\ pc = "pipes" /\ xf.child = "read"
  /\ xf.inPipe = <<>> /\ xf.closed
  /\ UNCHANGED notProc
  /\ xf' = [xf EXCEPT !.child = "write", !.output = gateway_wasm_main(xf.input)]

\* gateway_wasm: one write call of stdout().write_all.  It blocks while
\* the pipe is full; with the reading end closed the unwrap panics.
ChildWrite ==
  /\ pc = "pipes" /\ xf.child = "write"
  /\ xf.output # <<>>
  /\ UNCHANGED notProc
  /\ IF xf.at = "returned"
     THEN xf' = [xf EXCEPT !.child = "exited", !.exit = "nonzero"]
     ELSE /\ Len(xf.outPipe) < xf.cap
          /\ \E k \in 1..Min(xf.cap - Len(xf.outPipe), Len(xf.output)) :
               xf' = [xf EXCEPT !.outPipe = @ \o SubSeq(xf.output, 1, k),
                                !.output = SubSeq(@, k + 1, Len(@))]

\* gateway_wasm: main returns, the process exits and its ends of the pipes
\* close
ChildExit ==
  /\ pc = "pipes" /\ xf.child = "write"
  /\ xf.output = <<>>
  /\ UNCHANGED notProc
  /\ xf' = [xf EXCEPT !.child = "exited", !.exit = "zero"]

ParentStep == ParentWrite \/ ParentWaits \/ ParentRead \/ ParentReaps
ChildStep == ChildRead \/ ChildEof \/ ChildWrite \/ ChildExit

NextPipe == ParentStep \/ ChildStep

\* parent and child are processes of the operating system: each runs when
\* it is not blocked
SpecPipe ==
  InitPipe /\ [][NextPipe]_vars /\ WF_vars(ParentStep) /\ WF_vars(ChildStep)

(***************************************************************************)
(* Vocabulary of the properties: a response or request as a reader of the  *)
(* bytes sees it.                                                          *)
(***************************************************************************)
\* the 1-based position of the first head terminator of bytes, 0 for none
TerminatorAt(bytes) ==
  LET hits == {i \in 1..(Len(bytes) - 3) :
                 /\ bytes[i] = CR /\ bytes[i + 1] = LF
                 /\ bytes[i + 2] = CR /\ bytes[i + 3] = LF}
  IN IF hits = {} THEN 0 ELSE CHOOSE i \in hits : \A j \in hits : i <= j

\* the bytes before and after the first head terminator
HeadBytes(bytes) == SubSeq(bytes, 1, TerminatorAt(bytes) - 1)
BodyBytes(bytes) == SubSeq(bytes, TerminatorAt(bytes) + 4, Len(bytes))

\* the header lines of a head: its lines after the first
HeaderLines(hd) == Tail(SplitCRLF(hd))

\* the name of a header line, in lower case: what precedes its first colon
HeaderNameOf(line) ==
  IF IndexOf(line, ":") = 0 THEN <<>>
  ELSE to_ascii_lowercase(SubSeq(line, 1, IndexOf(line, ":") - 1))

\* the value of a header line: what follows its first colon, trimmed
HeaderValueOf(line) == trim(SubSeq(line, IndexOf(line, ":") + 1, Len(line)))

\* the lines of a block that carry the header name
LinesNamed(lines, name) == SelectSeq(lines, LAMBDA l : HeaderNameOf(l) = name)

N_content_length == <<"c","o","n","t","e","n","t","-","l","e","n","g","t","h">>
N_connection == <<"c","o","n","n","e","c","t","i","o","n">>
N_host == <<"h","o","s","t">>
N_x_gateway_variant == <<"x","-","g","a","t","e","w","a","y","-","v","a","r","i","a","n","t">>
N_x_gateway_workload == <<"x","-","g","a","t","e","w","a","y","-","w","o","r","k","l","o","a","d">>
N_x_upstream_url == <<"x","-","u","p","s","t","r","e","a","m","-","u","r","l">>
N_x_upstream_status == <<"x","-","u","p","s","t","r","e","a","m","-","s","t","a","t","u","s">>
V_close == <<"c","l","o","s","e">>

(***************************************************************************)
(* C1                                                                      *)
(***************************************************************************)
\* C1: whenever read_http_request has returned Ok((head, body)), the length
\* of body equals the content_length parse_request_head derives from head
\* (0 without a Content-Length header), whatever the split into read chunks:
\* bytes past the declared length are truncated away, those that arrived in
\* the read that completed the head terminator included.
C1_BodyLengthIsContentLength ==
  pc = "dispatch" => Len(body) = parse_request_head(head).req.content_length

(***************************************************************************)
(* C2                                                                      *)
(***************************************************************************)
\* what C2 asks of the bytes of one response
OwnsItsHeaders(bytes, proxied) ==
  LET lines == HeaderLines(HeadBytes(bytes))
      cl == LinesNamed(lines, N_content_length)
      cn == LinesNamed(lines, N_connection)
  IN /\ TerminatorAt(bytes) > 0
     /\ Len(cl) = 1
     /\ HeaderValueOf(cl[1]) = to_string(Len(BodyBytes(bytes)))
     /\ Len(cn) = 1
     /\ HeaderValueOf(cn[1]) = V_close
     /\ Len(LinesNamed(lines, N_x_gateway_variant)) = 1
     /\ Len(LinesNamed(lines, N_x_gateway_workload)) = 1
     /\ proxied => /\ Len(LinesNamed(lines, N_x_upstream_url)) = 1
                   /\ Len(LinesNamed(lines, N_x_upstream_status)) = 1

\* C2: every response the gateway builds, by build_response for a local
\* endpoint or by rebuild_response_with_extra_headers from an upstream head,
\* has exactly one Content-Length header, whose value is the length of the
\* body that follows the head, exactly one Connection header, with value
\* close, and exactly one header of each gateway name (X-Gateway-Variant,
\* X-Gateway-Workload, and X-Upstream-Url and X-Upstream-Status when
\* proxied), also when the upstream head carries those names in any case.
C2_ResponseOwnsItsHeaders ==
  (fn.done /\ fn.op \in {"rewrite", "build"})
    => OwnsItsHeaders(fn.out, fn.op = "rewrite")

\* a proxied response has been rebuilt from an upstream head that carried a
\* Content-Length, a Connection and a gateway header of its own
C2_Witness ==
  /\ fn.done /\ fn.op = "rewrite"
  /\ LET up == HeaderLines(HeadBytes(fn.bytes))
     IN /\ Len(LinesNamed(up, N_connection)) = 1
        /\ Len(LinesNamed(up, N_x_upstream_status)) = 1

(***************************************************************************)
(* C3                                                                      *)
(***************************************************************************)
\* the integer a counter response body carries: the body itself, or what
\* follows the prefix gateway_wasm puts before it; -1 when it is no integer
StateValueOf(bd) ==
  ParseUnsigned(IF starts_with(bd, STR_wasm_pfx) THEN strip_prefix(bd, STR_wasm_pfx)
                ELSE bd, U64_MAX)

\* the integers the counter endpoint has returned to its clients, in order
StateValues == [i \in 1..Len(stateReplies) |-> StateValueOf(stateReplies[i])]

\* C3 as stated: when N requests to the counter endpoint have been handled
\* one after the other on a fresh process, their clients have received N
\* integers, 0, 1, .., N-1: none repeated, none skipped.
C3_CounterRepliesHaveNoGaps ==
  pc \in {"accept", "done"}
    => /\ Len(StateValues) = counter
       /\ \A i \in 1..Len(StateValues) : StateValues[i] = i - 1

\* C3 as amended: the integers the counter endpoint has returned are
\* strictly increasing, each smaller than the number of counter requests
\* dispatched so far, and a counter request that has just been answered
\* received the number of counter requests dispatched before it; a
\* request whose transform or client write fails returns nothing and its
\* value is skipped, never returned to a later client.
C3_CounterRepliesIncrease ==
  /\ \A i \in 1..Len(StateValues) : 0 <= StateValues[i] /\ StateValues[i] < counter
  /\ \A i, j \in 1..Len(StateValues) : i < j => StateValues[i] < StateValues[j]
  /\ (pc = "done" /\ workload = WL_state /\ result = "ok" /\ clientOut = respBytes)
       => /\ Len(StateValues) >= 1
          /\ StateValues[Len(StateValues)] = counter - 1
  /\ Len(StateValues) = counter
       => \A i \in 1..Len(StateValues) : StateValues[i] = i - 1

\* two counter requests have both been answered
C3_Witness ==
  /\ pc = "done" /\ workload = WL_state /\ result = "ok"
  /\ Len(StateValues) = 2

(***************************************************************************)
(* C4                                                                      *)
(***************************************************************************)
\* handle_client returned an error raised before the response was assembled
FailedBeforeResponse == result \notin {"none", "ok", ErrClientWrite}

\* C4: when handling a connection fails before the response is assembled,
\* no byte has been written to the client, no response has been built, the
\* handler has stopped with the connection closed, and neither the upstream
\* connection nor the transform has been tried a second time.
C4_FailureWritesNothing ==
  /\ FailedBeforeResponse
       => /\ clientOut = <<>>
          /\ respBytes = <<>>
          /\ pc = "done"
          /\ ~clientOpen
  /\ upConns <= 1
  /\ xforms <= 1

\* the transform failed on a proxied response the upstream had delivered
C4_Witness ==
  /\ result = ErrTransformFailed
  /\ workload = WL_proxy
  /\ upSent # <<>>
  /\ resp # <<>>

(***************************************************************************)
(* C5                                                                      *)
(***************************************************************************)
\* the values of the Content-Length lines of a request head, in order,
\* without the sign a decimal number may carry
ContentLengthValues(hd) ==
  LET lines == LinesNamed(HeaderLines(hd), N_content_length)
      Unsigned(v) == IF v # <<>> /\ v[1] = "+" THEN Tail(v) ELSE v
  IN [i \in 1..Len(lines) |-> Unsigned(HeaderValueOf(lines[i]))]

\* a string of one or more decimal digits
IsDigits(s) == s # <<>> /\ \A i \in 1..Len(s) : IsDigit(s[i])

\* the values declare a Content-Length, a decimal number, above the body
\* ceiling: the last value counts
OverCeiling(vals) ==
  /\ vals # <<>>
  /\ \A i \in 1..Len(vals) : IsDigits(vals[i])
  /\ DigitsValue(vals[Len(vals)], 0, MAX_REQ_BODY_BYTES) > MAX_REQ_BODY_BYTES

\* one of the values does not fit the machine word it is parsed into
OverWord(vals) ==
  \E i \in 1..Len(vals) : DigitsValue(vals[i], 0, USIZE_MAX) > USIZE_MAX

\* the head has been found and its request line is well formed
HeadWellFormed == headFound /\ parse_request_head(head).err # ErrMalformedHead

\* C5 as stated: a request whose declared Content-Length exceeds the body
\* ceiling fails with BodyTooLarge, no read call having been issued after
\* the head terminator was found.
C5_OverCeilingIsBodyTooLarge ==
  (HeadWellFormed /\ OverCeiling(ContentLengthValues(head)))
    => result = ErrBodyTooLarge /\ bodyReads = 0

\* C5 as amended: a request whose declared Content-Length exceeds the body
\* ceiling fails without any read call after the head terminator was found
\* and without a byte written to the client: with BodyTooLarge when the
\* value fits the machine word, with InvalidContentLength when it does not;
\* BodyTooLarge is raised for no other request, and a Content-Length
\* equal to the ceiling is accepted.
C5_OverCeilingFailsUnread ==
  IF ~HeadWellFormed THEN result # ErrBodyTooLarge
  ELSE LET vals == ContentLengthValues(head)
       IN /\ OverCeiling(vals)
               => /\ bodyReads = 0
                  /\ clientOut = <<>>
                  /\ pc = "done"
                  /\ result = IF OverWord(vals) THEN ErrInvalidContentLength
                              ELSE ErrBodyTooLarge
          /\ result = ErrBodyTooLarge => OverCeiling(vals)
          /\ vals = <<to_string(MAX_REQ_BODY_BYTES)>>
               => result \notin {ErrBodyTooLarge, ErrInvalidContentLength}

\* a request declaring one byte more than the ceiling has failed with its
\* body still unread in the socket
C5_Witness ==
  /\ result = ErrBodyTooLarge
  /\ ContentLengthValues(head) = <<to_string(MAX_REQ_BODY_BYTES + 1)>>
  /\ bodyReads = 0
  /\ clientIn # <<>>

(***************************************************************************)
(* C6                                                                      *)
(***************************************************************************)
\* C6: when the bytes read before a head terminator was found exceed the
\* header ceiling, read_http_request fails with HeadersTooLarge, with no
\* head parsed and no read call of the body phase; a head that is parsed
\* lies, terminator included, within the ceiling; and a read returning 0
\* bytes before the terminator was found fails with ConnectionClosedEarly.
C6_HeaderCeilingAndEarlyClose ==
  /\ result = ErrHeadersTooLarge
       => /\ Len(buf) > MAX_HEADER_BYTES
          /\ ~headFound /\ head = <<>> /\ req = NoRequest
          /\ bodyReads = 0
          /\ clientOut = <<>>
  /\ Len(buf) > MAX_HEADER_BYTES => result = ErrHeadersTooLarge
  /\ headFound => Len(head) + 4 <= MAX_HEADER_BYTES
  /\ (lastRead = "eof" /\ ~headFound) => result = ErrClosedEarly
  /\ result = ErrClosedEarly => (lastRead = "eof" /\ ~headFound /\ bodyReads = 0)

\* a header block past the ceiling has been refused with bytes of it still
\* unread
C6_Witness ==
  /\ result = ErrHeadersTooLarge
  /\ TerminatorAt(buf) = 0
  /\ clientIn # <<>>

(***************************************************************************)
(* C7                                                                      *)
(***************************************************************************)
\* what the workload transform makes of a body in a variant
ExpectedTransform(v, bd) ==
  IF v = VARIANT_native THEN bd
  ELSE <<"w","a","s","m",":">> \o bd

\* C7: on the proxy path the body of the response built for the client is
\* the transform of the upstream body, the bytes after the first head
\* terminator of the upstream response: those bytes themselves in the
\* native variant, and wasm: followed by those bytes in the wasm-host
\* variant with the transform of gateway_wasm; a response delivered to the
\* client is that response.
C7_ProxyBodyIsTransformedUpstreamBody ==
  /\ (workload = WL_proxy /\ respBytes # <<>>)
       => /\ TerminatorAt(resp) > 0
          /\ BodyBytes(respBytes) = ExpectedTransform(variant, BodyBytes(resp))
  /\ (workload = WL_proxy /\ result = "ok") => clientOut = respBytes

\* the wasm-host variant has delivered a proxied response whose upstream
\* body holds a head terminator of its own
C7_Witness ==
  /\ workload = WL_proxy /\ result = "ok"
  /\ variant = VARIANT_wasm_host
  /\ TerminatorAt(BodyBytes(resp)) > 0

(***************************************************************************)
(* C8                                                                      *)
(***************************************************************************)
\* a string without its first byte when that is a slash, without its last
\* byte when that is a slash
StripOneLeadingSlash(s) == IF s # <<>> /\ s[1] = "/" THEN Tail(s) ELSE s
StripOneTrailingSlash(s) ==
  IF s # <<>> /\ s[Len(s)] = "/" THEN SubSeq(s, 1, Len(s) - 1) ELSE s

\* a string without the slashes it begins with, without those it ends with
StripLeadingSlashes(s) ==
  LET others == {i \in 1..Len(s) : s[i] # "/"}
  IN IF others = {} THEN <<>>
     ELSE SubSeq(s, CHOOSE i \in others : \A j \in others : i <= j, Len(s))
StripTrailingSlashes(s) ==
  LET others == {i \in 1..Len(s) : s[i] # "/"}
  IN IF others = {} THEN <<>>
     ELSE SubSeq(s, 1, CHOOSE i \in others : \A j \in others : j <= i)

\* the request line of the bytes sent upstream
RequestLineOf(bytes) == SplitCRLF(HeadBytes(bytes))[1]

\* a request line of the three parts
RequestLine(method, target, version) ==
  method \o <<" ">> \o target \o <<" ">> \o version

\* build_forwarded_request has been applied to a request
Forwarded == fn.done /\ fn.op = "forward"

\* C8 as stated: the request line build_forwarded_request emits carries the
\* method and version of the request and, as target, the request's target
\* when the upstream base path is empty or "/", the base path without its
\* trailing slash, "/", and the target without its leading slash otherwise.
C8_TargetWithoutItsLeadingSlash ==
  Forwarded =>
    LET r == parse_request_head(fn.bytes).req
        base == upstream.base_path
    IN RequestLineOf(fn.out) =
         RequestLine(r.method,
                     IF base = <<>> \/ base = <<"/">> THEN r.path
                     ELSE StripOneTrailingSlash(base) \o <<"/">>
                            \o StripOneLeadingSlash(r.path),
                     r.version)

\* C8 as amended: the request line build_forwarded_request emits carries
\* the method and version of the request and, as target, the request's
\* target when the upstream base path is empty or "/", the base path
\* without its trailing slashes, "/", and the target without any of the
\* slashes it begins with otherwise.
C8_TargetWithoutLeadingSlashes ==
  Forwarded =>
    LET r == parse_request_head(fn.bytes).req
        base == upstream.base_path
    IN /\ TerminatorAt(fn.out) > 0
       /\ RequestLineOf(fn.out) =
            RequestLine(r.method,
                        IF base = <<>> \/ base = <<"/">> THEN r.path
                        ELSE StripTrailingSlashes(base) \o <<"/">>
                               \o StripLeadingSlashes(r.path),
                        r.version)

\* a target that begins with two slashes has been forwarded under a base
\* path
C8_Witness ==
  /\ Forwarded
  /\ upstream.base_path # <<>>
  /\ starts_with(parse_request_head(fn.bytes).req.path, <<"/", "/", "a">>)

(***************************************************************************)
(* C9                                                                      *)
(***************************************************************************)
\* a header line named Host or Connection, in any case
IsHostOrConnection(line) == HeaderNameOf(line) \in {N_host, N_connection}

\* C9: the header block build_forwarded_request emits is the header lines
\* of the original head that are named neither Host nor Connection, in
\* any case, in their order and unmodified, then one Host line carrying
\* the upstream's host, then one Connection: close line; no other line is
\* named Host or Connection.
C9_ForwardedHeaderBlock ==
  Forwarded =>
    LET kept == SelectSeq(HeaderLines(fn.bytes), LAMBDA l : ~IsHostOrConnection(l))
        sent == HeaderLines(HeadBytes(fn.out))
    IN /\ sent = kept \o << <<"H","o","s","t",":"," ">> \o upstream.host,
                            <<"C","o","n","n","e","c","t","i","o","n",":"," ","c","l","o","s","e">> >>
       /\ Len(LinesNamed(sent, N_host)) = 1
       /\ Len(LinesNamed(sent, N_connection)) = 1

\* a request with a Host line in upper case before a line to keep has
\* been forwarded
C9_Witness ==
  /\ Forwarded
  /\ HeaderLines(fn.bytes) = <<L_host_uc, L_xa>>
  /\ HeaderLines(HeadBytes(fn.out)) # <<>>

(***************************************************************************)
(* C10                                                                     *)
(***************************************************************************)
\* the request of a connection whose head has been parsed and dispatched
Dispatched == workload # <<>>
IsGet == req.method = <<"G","E","T">>
TargetIs(t) == req.path = t
TargetBegins(t) == starts_with(req.path, t)

\* the handler a dispatched request has been given to is the one the
\* request's body and label show
HandlerActed ==
  /\ workload = WL_health => payload = <<"O","K">>
  /\ workload = WL_hello => payload = <<"h","e","l","l","o">>
  /\ workload = WL_compute => payload = cpu_heavy(ItersOf(req.path))
  /\ workload = WL_state => counter >= 1 /\ payload = to_string(counter - 1)
  /\ workload = WL_proxy => (upConns = 1 \/ pc = "connect")
  /\ workload # WL_proxy => upConns = 0 /\ upSent = <<>>

\* C10 as stated: a parsed request is given to one handler: the health
\* check for exact GET /health, else hello for GET / or GET with a target
\* beginning /?, else compute for a target beginning /compute, else the
\* counter for a target beginning /state, else the proxy.
C10_DispatchByTargetAlone ==
  Dispatched =>
    workload = IF IsGet /\ TargetIs(STR_health) THEN WL_health
               ELSE IF IsGet /\ (TargetIs(STR_slash) \/ TargetBegins(STR_slash_q))
               THEN WL_hello
               ELSE IF TargetBegins(STR_compute) THEN WL_compute
               ELSE IF TargetBegins(STR_state) THEN WL_state
               ELSE WL_proxy

\* C10 as amended: a parsed request is given to one handler: the health
\* check for exact GET /health, else hello for GET / or GET with a target
\* beginning /?, else compute for GET with a target beginning /compute,
\* else the counter for GET with a target beginning /state, else, any
\* request of another method included, the proxy; and that handler alone
\* has acted.
C10_DispatchByMethodAndTarget ==
  Dispatched =>
    /\ workload = WL_health <=> (IsGet /\ TargetIs(<<"/","h","e","a","l","t","h">>))
    /\ workload = WL_hello <=> (IsGet /\ (TargetIs(<<"/">>) \/ TargetBegins(<<"/","?">>)))
    /\ workload = WL_compute <=> (IsGet /\ TargetBegins(<<"/","c","o","m","p","u","t","e">>))
    /\ workload = WL_state <=> (IsGet /\ TargetBegins(<<"/","s","t","a","t","e">>))
    /\ workload = WL_proxy <=>
         ~(IsGet /\ (\/ TargetIs(<<"/","h","e","a","l","t","h">>)
                     \/ TargetIs(<<"/">>)
                     \/ TargetBegins(<<"/","?">>)
                     \/ TargetBegins(<<"/","c","o","m","p","u","t","e">>)
                     \/ TargetBegins(<<"/","s","t","a","t","e">>)))
    /\ HandlerActed

\* a POST to /state has been proxied
C10_Witness ==
  /\ Dispatched
  /\ ~IsGet /\ TargetBegins(<<"/","s","t","a","t","e">>)
  /\ workload = WL_proxy
  /\ upSent # <<>>

(***************************************************************************)
(* C11                                                                     *)
(***************************************************************************)
\* a is a prefix of b
IsPrefix(a, b) == Len(a) <= Len(b) /\ SubSeq(b, 1, Len(a)) = a

\* handle_client has returned Ok for the connection
HandlerReturnedOk == result = "ok"

\* a step on the connection in hand, not the accept of the next one
SameConnection == conns' = conns

\* C11 as stated: every handler that has reached its terminal state has
\* written a complete response to the client and closed the connection.
C11_TerminalStateWroteResponse ==
  HandlerReturnedOk
    => /\ respBytes # <<>>
       /\ clientOut = respBytes
       /\ ~clientOpen

\* C11 as amended: on each accepted connection the gateway reads from the
\* client only until its one request is complete and never after, writes
\* to the client only the one response it has built, in one step, and has
\* closed the connection when the handler has returned; a handler that has
\* returned Ok has written its complete response, except the health
\* handler, which ignores a failed write and may return Ok with only a
\* part of its response written.
C11_OneExchangePerConnection ==
  /\ [](/\ pc = "done" => ~clientOpen
        /\ result # "none" => pc = "done"
        /\ IsPrefix(clientOut, respBytes)
        /\ (HandlerReturnedOk /\ workload # WL_health)
             => respBytes # <<>> /\ clientOut = respBytes
        /\ HandlerReturnedOk => TerminatorAt(respBytes) > 0)
  /\ [][SameConnection
          => /\ clientIn' # clientIn => (pc \in {"read_head", "read_body"} /\ clientOpen)
             /\ clientOut' # clientOut => (pc = "write" /\ pc' = "done")
             /\ clientOpen' => clientOpen]_vars

\* the counter endpoint has answered the first of two requests sent back
\* to back, and bytes of the second are still unread in the socket
C11_Witness ==
  /\ HandlerReturnedOk
  /\ workload = WL_state
  /\ clientOut = respBytes
  /\ clientIn # <<>>
  /\ Len(buf) > TerminatorAt(buf) + 3

(***************************************************************************)
(* C12                                                                     *)
(***************************************************************************)
\* handle_client is running for the connection in hand
Handling == conns > 0 /\ result = "none"

\* C12: at every moment at most one connection is being handled: the
\* accept loop takes the next connection only when handle_client has
\* returned for the one before, with the client stream and the upstream
\* stream of that connection closed; a client stream is open only while
\* its connection is being handled, an upstream stream only within that
\* time, and the connection in hand has opened at most one upstream
\* connection and started at most one transform process.
C12_OneConnectionAtATime ==
  /\ [](/\ clientOpen <=> Handling
        /\ upOpen => Handling
        /\ upConns <= 1 /\ xforms <= 1 /\ xf.spawns <= xforms
        /\ xforms = 1 => pc \in {"write", "done"})
  /\ [][conns' # conns
          => /\ conns' = conns + 1
             /\ ~Handling /\ ~clientOpen /\ ~upOpen
             /\ conns > 0 => pc = "done"
             /\ upConns' = 0 /\ xforms' = 0 /\ xf'.spawns = 0]_vars

\* a second connection is in hand after the first was served by the
\* counter endpoint
C12_Witness ==
  /\ conns = 2
  /\ Handling /\ clientOpen
  /\ Len(stateReplies) = 1
  /\ upOpen

(***************************************************************************)
(* C13                                                                     *)
(***************************************************************************)
\* a Content-Length value, sign removed, that parses as a count of bytes
ParsesAsCount(v) == IsDigits(v) /\ DigitsValue(v, 0, USIZE_MAX) <= USIZE_MAX

\* one of the Content-Length values of the head does not parse
HasUnparsableContentLength(hd) ==
  \E i \in 1..Len(ContentLengthValues(hd)) : ~ParsesAsCount(ContentLengthValues(hd)[i])

\* C13: a request whose head, otherwise well formed, carries a
\* Content-Length header whose value does not parse as a non-negative
\* integer fails with InvalidContentLength, and no other request does:
\* no read call of the body phase has been issued, no upstream connection
\* opened, no byte sent upstream, no response built and no byte written
\* to the client.
C13_UnparsableContentLengthFails ==
  IF ~HeadWellFormed THEN result # ErrInvalidContentLength
  ELSE /\ HasUnparsableContentLength(head) <=> result = ErrInvalidContentLength
       /\ result = ErrInvalidContentLength
            => /\ pc = "done" /\ ~clientOpen
               /\ bodyReads = 0 /\ body = <<>>
               /\ workload = <<>> /\ upConns = 0 /\ upSent = <<>>
               /\ xforms = 0 /\ respBytes = <<>> /\ clientOut = <<>>

\* a request whose Content-Length is not a number has failed with its body
\* still unread in the socket
C13_Witness ==
  /\ result = ErrInvalidContentLength
  /\ ContentLengthValues(head) = << <<"x">> >>
  /\ clientIn # <<>>

(***************************************************************************)
(* C14                                                                     *)
(***************************************************************************)
\* the request has been read as one without a body
ReadAsBodyless ==
  /\ result \notin {ErrInvalidContentLength, ErrBodyTooLarge, ErrIncompleteBody}
  /\ req.content_length = 0
  /\ body = <<>>
  /\ bodyReads = 0
  /\ pc # "read_body"
  /\ TerminatorAt(upSent) > 0 => BodyBytes(upSent) = <<>>

\* C14 as stated: a request whose Content-Length header is missing or does
\* not parse is read as one with content_length 0: its body is empty and
\* the bytes after the head terminator are not forwarded.
C14_MissingOrUnparsableIsBodyless ==
  (HeadWellFormed
     /\ (ContentLengthValues(head) = <<>> \/ HasUnparsableContentLength(head)))
    => ReadAsBodyless

\* C14 as amended: a request without a Content-Length header is read as
\* one with content_length 0: its body is empty, no read call of the body
\* phase is issued, and the bytes after the head terminator are neither
\* kept nor forwarded; a request whose Content-Length does not parse is
\* not read as bodyless: it fails with InvalidContentLength.
C14_MissingContentLengthIsBodyless ==
  HeadWellFormed
    => /\ ContentLengthValues(head) = <<>>
            => /\ ReadAsBodyless
               /\ parse_request_head(head).err = ""
       /\ HasUnparsableContentLength(head)
            => ~ReadAsBodyless /\ result = ErrInvalidContentLength

\* a request without Content-Length, followed by bytes, has been forwarded
\* whole to the upstream
C14_Witness ==
  /\ headFound
  /\ ContentLengthValues(head) = <<>>
  /\ Len(buf) > TerminatorAt(buf) + 3
  /\ workload = WL_proxy
  /\ TerminatorAt(upSent) > 0
  /\ pc = "read_upstream"

(***************************************************************************)
(* C15                                                                     *)
(***************************************************************************)
\* read_all_response has returned the bytes it accumulated
ResponseReturned ==
  \/ pc \in {"transform", "write"}
  \/ pc = "done" /\ workload = WL_proxy
       /\ result \in {"ok", ErrTransformFailed, ErrMalformedUpstream,
                      ErrClientWrite}

\* C15: read_all_response accumulates the bytes of the upstream until the
\* end of the stream and returns all of them: each read call moves bytes
\* from the stream to the accumulated response without losing or
\* reordering any, and it returns only once the stream is exhausted.  A
\* response longer than MAX_RESP_BYTES fails with ResponseTooLarge, with
\* no transform run, no response built and nothing written to the client;
\* a response of exactly MAX_RESP_BYTES bytes, or shorter, never does.
C15_WholeResponseUpToTheCap ==
  /\ [](/\ ResponseReturned => upIn = <<>> /\ Len(resp) <= MAX_RESP_BYTES
        /\ result = ErrResponseTooLarge <=> Len(resp) > MAX_RESP_BYTES
        /\ result = ErrResponseTooLarge
             => /\ pc = "done" /\ ~clientOpen
                /\ xforms = 0 /\ respBytes = <<>> /\ clientOut = <<>>)
  /\ [][pc = "read_upstream"
          => /\ resp' \o upIn' = resp \o upIn
             /\ Len(resp') >= Len(resp)
             /\ pc' \in {"transform", "write"}
                  => upIn = <<>> /\ resp' = resp
                       /\ payload' = BodyBytes(resp)]_vars

\* an upstream response of exactly MAX_RESP_BYTES bytes has been read whole
\* and answered
C15_Witness ==
  /\ Len(resp) = MAX_RESP_BYTES
  /\ resp = U_exact
  /\ result = "ok"
  /\ workload = WL_proxy
  /\ clientOut = respBytes
  /\ respBytes # <<>>

(***************************************************************************)
(* C16                                                                     *)
(***************************************************************************)
\* the number written by the second blank-separated word of a status line
StatusNumberOf(line) ==
  LET w == split_whitespace(line)[2]
  IN DigitsValue(IF w[1] = "+" THEN Tail(w) ELSE w, 0, U16_MAX)

\* the values of the header lines of a response that carry the name
ResponseValues(bytes, name) ==
  LET named == LinesNamed(HeaderLines(HeadBytes(bytes)), name)
  IN [i \in 1..Len(named) |-> HeaderValueOf(named[i])]

\* C16: every response built for a proxied request starts with the status
\* line of the upstream's response, byte for byte; it carries one
\* X-Upstream-Url header, whose value is the upstream URL as configured,
\* one X-Upstream-Status header, whose value is the decimal writing of the
\* number found as the second word of that status line, and one
\* X-Gateway-Workload header, whose value is proxy; what the client
\* receives is that response.
C16_ProxiedResponseHead ==
  (workload = WL_proxy /\ respBytes # <<>>)
    => LET status == SplitCRLF(HeadBytes(resp))[1]
       IN /\ TerminatorAt(respBytes) > 0
          /\ SplitCRLF(HeadBytes(respBytes))[1] = status
          /\ SubSeq(respBytes, 1, Len(status) + 2) = status \o CRLF
          /\ ResponseValues(respBytes, N_x_upstream_url) = <<upstream.raw_url>>
          /\ Len(ResponseValues(respBytes, N_x_upstream_status)) = 1
          /\ IsDigits(ResponseValues(respBytes, N_x_upstream_status)[1])
          /\ ResponseValues(respBytes, N_x_upstream_status)[1]
               = to_string(StatusNumberOf(status))
          /\ ResponseValues(respBytes, N_x_gateway_workload) = <<WL_proxy>>
          /\ result = "ok" => clientOut = respBytes

\* a client has received the answer to a proxied request whose upstream,
\* configured with a path, answered with a status other than 200
C16_Witness ==
  /\ workload = WL_proxy
  /\ result = "ok"
  /\ clientOut = respBytes
  /\ respBytes # <<>>
  /\ StatusNumberOf(SplitCRLF(HeadBytes(resp))[1]) = 404
  /\ Len(upstream.raw_url) > Len(URL_SCHEME) + Len(upstream.host)

(***************************************************************************)
(* C17                                                                     *)
(***************************************************************************)
N_iters == <<"i","t","e","r","s">>

\* the name=value pairs of the query of a target: the pieces, cut at each
\* "&", of what follows its first "?"
QueryPieces(target) ==
  IF IndexOf(target, "?") = 0 THEN <<>>
  ELSE SplitChar(SubSeq(target, IndexOf(target, "?") + 1, Len(target)), "&")

\* the name of a piece and its value: what precedes and what follows its
\* first "="
PieceName(piece) ==
  IF IndexOf(piece, "=") = 0 THEN piece
  ELSE SubSeq(piece, 1, IndexOf(piece, "=") - 1)
PieceValue(piece) ==
  IF IndexOf(piece, "=") = 0 THEN <<>>
  ELSE SubSeq(piece, IndexOf(piece, "=") + 1, Len(piece))

\* the values given to iters in a target, in order
ItersTexts(target) ==
  LET named == SelectSeq(QueryPieces(target), LAMBDA p : PieceName(p) = N_iters)
  IN [i \in 1..Len(named) |-> PieceValue(named[i])]

\* a text that writes an unsigned integer of 64 bits
WritesUnsigned(text) ==
  LET d == IF text # <<>> /\ text[1] = "+" THEN Tail(text) ELSE text
  IN IsDigits(d) /\ DigitsValue(d, 0, U64_MAX) <= U64_MAX

\* the iteration count the compute workload is to use for a target: the
\* first iters value when it writes an unsigned integer, 50000 otherwise
ClaimedIters(target) ==
  LET texts == ItersTexts(target)
  IN IF texts # <<>> /\ WritesUnsigned(texts[1])
     THEN LET t == texts[1]
          IN DigitsValue(IF t[1] = "+" THEN Tail(t) ELSE t, 0, U64_MAX)
     ELSE 50000

\* C17: the body the compute workload produces is cpu_heavy of the iters
\* query parameter of the target when that parameter writes an unsigned
\* integer, and cpu_heavy of 50000 when the parameter is absent or does not
\* write one, so that /compute?iters=abc and /compute get the same body;
\* the body depends on nothing but that iteration count (and, in the
\* wasm-host variant, carries the transform's prefix), and the response
\* carries the workload label compute.
C17_ComputeBodyFollowsIters ==
  (workload = WL_compute /\ pc \in {"transform", "write", "done"})
    => /\ payload = cpu_heavy(ClaimedIters(req.path))
       /\ (ItersTexts(req.path) = <<>> \/ ~WritesUnsigned(ItersTexts(req.path)[1]))
            => payload = cpu_heavy(DEFAULT_ITERS)
       /\ respBytes # <<>>
            => /\ BodyBytes(respBytes)
                    = ExpectedTransform(variant, cpu_heavy(ClaimedIters(req.path)))
               /\ ResponseValues(respBytes, N_x_gateway_workload) = <<WL_compute>>
       /\ result = "ok" => clientOut = respBytes

\* a client has received the answer to /compute?iters=abc
C17_Witness ==
  /\ workload = WL_compute
  /\ result = "ok"
  /\ clientOut = respBytes
  /\ ItersTexts(req.path) = << <<"a","b","c">> >>
  /\ BodyBytes(respBytes) = ExpectedTransform(variant, cpu_heavy(50000))

(***************************************************************************)
(* C18                                                                     *)
(***************************************************************************)
\* the handler of the request has run to its end
HandlerEnded == workload # <<>> /\ pc = "done"

\* C18 as stated: in the wasm-host variant every hello, compute, state and
\* proxy request whose handler has run has had the transform invoked
\* exactly once, and the body sent is that invocation's output; a health
\* request has had no invocation and its body is OK.
C18_TransformOncePerHandledRequest ==
  variant = VARIANT_wasm_host
    => /\ (HandlerEnded /\ workload # WL_health) => xforms = 1
       /\ (xforms = 1 /\ respBytes # <<>>) => BodyBytes(respBytes) = xf.stdout
       /\ workload = WL_health
            => xforms = 0 /\ (respBytes # <<>> => BodyBytes(respBytes) = STR_OK)

\* the handler of a proxied request got a response from the upstream that
\* has a head and a status code
UpstreamAnswered ==
  result \notin {ErrUpstreamConnect, ErrIo, ErrResponseTooLarge, ErrMalformedUpstream}

\* C18 as amended: in the wasm-host variant the transform is invoked at
\* most once for a request: exactly once for every hello, compute and
\* state request that reaches its handler, exactly once for a proxy
\* request whose upstream response was read whole and has a head and a
\* status code, and not at all for a proxy request whose upstream exchange
\* failed.  The invocation is given the body the handler produced (on the
\* proxy path the body of the upstream response, never the request, which
\* is forwarded with the body it was read with); the body of the response
\* built for the client is that invocation's output.  A health request
\* never invokes the transform and its body is the literal OK.
C18_TransformOncePerProducedBody ==
  /\ variant = VARIANT_wasm_host
       => /\ xforms <= 1
          /\ (workload \in {WL_hello, WL_compute, WL_state} /\ pc \in {"write", "done"})
               => xforms = 1
          /\ (workload = WL_proxy /\ pc \in {"write", "done"})
               => (xforms = 1 <=> UpstreamAnswered)
          /\ xforms = 1
               => /\ workload \in {WL_hello, WL_compute, WL_state, WL_proxy}
                  /\ IsPrefix(xf.stdin, payload)
                  /\ workload = WL_proxy => payload = BodyBytes(resp)
                  /\ respBytes # <<>> <=> xf.status = "zero"
          /\ respBytes # <<>> /\ workload # WL_health
               => /\ xforms = 1
                  /\ xf.stdin = payload
                  /\ BodyBytes(respBytes) = xf.stdout
                  /\ result = "ok" => clientOut = respBytes
          /\ TerminatorAt(upSent) > 0 => IsPrefix(BodyBytes(upSent), body)
          /\ xforms = 1 /\ workload = WL_proxy => BodyBytes(upSent) = body
  /\ workload = WL_health
       => /\ xforms = 0 /\ xf = NoProc
          /\ pc \in {"write", "done"}
          /\ BodyBytes(respBytes) = STR_OK

\* in the wasm-host variant a client has received the answer to a proxied
\* request, whose body is the output of the one invocation of the transform
\* on the upstream's body
C18_Witness ==
  /\ variant = VARIANT_wasm_host
  /\ workload = WL_proxy
  /\ result = "ok"
  /\ xforms = 1
  /\ xf.stdin = BodyBytes(resp)
  /\ xf.stdin # <<>>
  /\ body # <<>>
  /\ clientOut = respBytes
  /\ BodyBytes(clientOut) = xf.stdout

(***************************************************************************)
(* C19                                                                     *)
(***************************************************************************)
\* wasm_transform has returned Ok
TransformReturnedOk ==
  xforms = 1 /\ (pc = "write" \/ result \in {"ok", ErrClientWrite})

\* C19: an invocation of wasm_transform starts one process, and none when
\* the process cannot be started; it writes the payload to the standard
\* input of the process from its first byte on, closes that input once
\* the whole payload is written, and only then waits for the process.  It
\* returns Ok exactly when the process was started, took the whole
\* payload, was waited for and exited with status zero, and what it
\* returns, the body of the response, is the standard output of the
\* process.  When the process cannot be started, when the write fails,
\* when waiting fails or when the exit status is not zero, the request
\* fails with TransformFailed, no response is built and no byte is written
\* to the client; no request fails with TransformFailed otherwise.
C19_TransformProcess ==
  /\ xforms = 0 => xf = NoProc /\ result # ErrTransformFailed
  /\ xforms = 1
       => /\ xf.spawns <= 1
          /\ xf.spawns = 0 <=> xf.status = "not_started"
          /\ IsPrefix(xf.stdin, payload)
          /\ xf.waited => xf.closed /\ xf.stdin = payload
          /\ xf.status \in {"zero", "nonzero"} <=> xf.waited
          /\ TransformReturnedOk <=> xf.status = "zero"
          /\ xf.status = "zero"
               => /\ xf.spawns = 1
                  /\ xf.stdin = payload /\ xf.closed /\ xf.waited
                  /\ respBytes # <<>>
                  /\ BodyBytes(respBytes) = xf.stdout
          /\ xf.status # "zero"
               => /\ result = ErrTransformFailed
                  /\ pc = "done" /\ ~clientOpen
                  /\ respBytes = <<>> /\ clientOut = <<>>
                  /\ xf.stdout = <<>>

\* a process that took the whole of a payload has exited with a status
\* other than zero
C19_Witness ==
  /\ xforms = 1
  /\ xf.spawns = 1
  /\ xf.status = "nonzero"
  /\ xf.stdin = payload
  /\ payload # <<>>
  /\ result = ErrTransformFailed
  /\ clientOut = <<>>

(***************************************************************************)
(* C20                                                                     *)
(***************************************************************************)
\* the request of the connection in hand has been read whole: its head is
\* parsed and its body holds all the bytes its content_length announces
RequestReadWhole ==
  /\ headFound
  /\ parse_request_head(head).err = ""
  /\ req = parse_request_head(head).req
  /\ Len(body) >= req.content_length
  /\ pc \notin {"accept", "read_head", "read_body"}

\* C20: the handler calls connect on the upstream, and sends a byte to it,
\* only once the request has been read whole, head and all content_length
\* bytes of the body, and then reads nothing more from the client.  A
\* request served by a local endpoint has no connect call and no upstream
\* connection; a proxied request has exactly one connect call, which is
\* made as soon as the request is routed, and so at most one upstream
\* connection, which is closed when the handler returns: no upstream
\* connection is open between two requests.
C20_UpstreamOnlyAfterWholeRequest ==
  /\ [](/\ (upConns > 0 \/ upSent # <<>> \/ upOpen)
             => RequestReadWhole /\ workload = WL_proxy /\ upConns = 1
        /\ workload \in {WL_health, WL_hello, WL_compute, WL_state}
             => upConns = 0 /\ upSent = <<>> /\ ~upOpen /\ upIn = <<>>
        /\ workload = WL_proxy /\ pc # "connect" => upConns = 1
        /\ upOpen => pc \in {"send_upstream", "read_upstream", "transform", "write"}
        /\ TerminatorAt(upSent) > 0 => IsPrefix(BodyBytes(upSent), body)
        /\ pc \in {"read_upstream", "transform", "write"} /\ workload = WL_proxy
             => BodyBytes(upSent) = body
        /\ pc \in {"accept", "done"} => ~upOpen)
  /\ [][SameConnection
          => /\ (upConns' # upConns \/ upSent' # upSent \/ (upOpen' /\ ~upOpen))
                  => /\ RequestReadWhole
                     /\ workload = WL_proxy
                     /\ clientIn' = clientIn
             /\ upConns > 0
                  => /\ clientIn' = clientIn
                     /\ head' = head /\ body' = body /\ req' = req
             /\ upOpen' /\ ~upOpen => upConns = 0 /\ upConns' = 1]_vars

\* the upstream has been sent a request whose body came to the gateway
\* over several read calls, the last of them in the body loop
C20_Witness ==
  /\ workload = WL_proxy
  /\ upConns = 1
  /\ upOpen
  /\ bodyReads > 0
  /\ req.content_length = MAX_REQ_BODY_BYTES
  /\ Len(body) = req.content_length
  /\ BodyBytes(upSent) = body
  /\ pc = "read_upstream"

(***************************************************************************)
(* C21                                                                     *)
(***************************************************************************)
\* the write of the forwarded request to the upstream has succeeded
ForwardedWhole ==
  workload = WL_proxy /\ pc \in {"read_upstream", "transform", "write"}

\* C21: once the forwarded request has been written to the upstream, the
\* bytes sent after the forwarded head terminator are the body
\* read_http_request returned, every byte of it and nothing else, and a
\* write that failed has sent no byte that is not of that body.  No
\* transform is invoked before or while the request is sent, in either
\* variant: the invocation of the wasm-host variant comes after the
\* upstream's response and is given the body of that response.
C21_ForwardedBodyIsRequestBody ==
  /\ [](/\ ForwardedWhole
             => /\ TerminatorAt(upSent) > 0
                /\ BodyBytes(upSent) = body
                /\ Len(upSent) = TerminatorAt(upSent) + 3 + Len(body)
        /\ TerminatorAt(upSent) > 0 => IsPrefix(BodyBytes(upSent), body)
        /\ pc \in {"connect", "send_upstream", "read_upstream"}
             => xforms = 0 /\ xf = NoProc
        /\ workload = WL_proxy /\ xforms = 1
             => IsPrefix(xf.stdin, BodyBytes(resp)) /\ BodyBytes(upSent) = body
        /\ variant = VARIANT_native => xforms = 0 /\ xf = NoProc)
  /\ [][SameConnection /\ upSent' # upSent
          => xforms = 0 /\ xforms' = 0 /\ body' = body]_vars

\* a request that came with more bytes than its content_length announces
\* has been forwarded with every byte read_http_request returned
C21_Witness ==
  /\ ForwardedWhole
  /\ pc = "read_upstream"
  /\ req.content_length > 0
  /\ Len(body) > req.content_length
  /\ BodyBytes(upSent) = body

(***************************************************************************)
(* C22                                                                     *)
(***************************************************************************)
\* the step gives the request in hand to the counter endpoint
DispatchesToCounter == workload = <<>> /\ workload' = WL_state

\* C22: the counter is 0 when the process starts; the step that gives a
\* request to the counter endpoint adds exactly one to it and no other
\* step changes it: not the dispatch of a health, hello, compute or proxy
\* request, not the failure of a request before dispatch, and not what
\* follows the dispatch of a counter request, a failed transform or a
\* failed client write included.  So its value is at all times the number
\* of counter requests dispatched so far, which is at least the number of
\* counter requests answered.
C22_CounterCountsDispatches ==
  /\ [](/\ conns = 0 => counter = 0
        /\ counter <= conns
        /\ Len(stateReplies) <= counter
        /\ workload = WL_state => counter >= 1
        /\ (conns = 1 /\ pc # "accept")
             => counter = IF workload = WL_state THEN 1 ELSE 0)
  /\ [][IF DispatchesToCounter
        THEN counter' = counter + 1 /\ pc = "dispatch"
        ELSE counter' = counter]_vars

\* the second of two counter requests has failed in its transform after
\* the first was answered: the counter has counted both
C22_Witness ==
  /\ workload = WL_state
  /\ result = ErrTransformFailed
  /\ clientOut = <<>>
  /\ Len(stateReplies) = 1
  /\ counter = 2

(***************************************************************************)
(* C23                                                                     *)
(***************************************************************************)
\* a connection is in the hands of handle_client
InHandler == pc \notin {"accept", "done"}

\* C23: when every socket call returns and every transform invocation
\* returns, a connection that has been accepted is eventually closed with
\* the handler returned, and the accept loop is then ready for the next
\* connection.  The read calls are bounded: the head loop has accumulated
\* at most one read buffer more than MAX_HEADER_BYTES, the body loop has
\* issued at most content_length read calls, itself at most
\* MAX_REQ_BODY_BYTES, and the upstream loop has accumulated at most one
\* read buffer more than MAX_RESP_BYTES.
C23_EveryConnectionTerminates ==
  /\ [](/\ Len(buf) <= MAX_HEADER_BYTES + REQ_TMP_LEN
        /\ bodyReads <= req.content_length
        /\ bodyReads <= MAX_REQ_BODY_BYTES
        /\ Len(resp) <= MAX_RESP_BYTES + RESP_TMP_LEN
        /\ pc = "done" => ~clientOpen /\ ~upOpen /\ result # "none"
        /\ (pc = "done" /\ conns < MaxConns) => ENABLED Accept)
  /\ (InHandler ~> pc = "done")

\* a second connection has been closed after a body read in as many read
\* calls as it has bytes and an upstream response read in several
C23_Witness ==
  /\ conns = 2
  /\ pc = "done"
  /\ ~clientOpen
  /\ bodyReads = MAX_REQ_BODY_BYTES
  /\ Len(resp) > RESP_TMP_LEN
  /\ result = "ok"
(***************************************************************************)
(* C24                                                                     *)
(***************************************************************************)
\* the bytes the client sends on this connection: those read into buf and
\* those still to come
ClientSends == buf \o clientIn

\* the length of the request head of a byte stream: the bytes before the
\* head terminator, all of them when there is none
HeadLengthOf(bytes) ==
  IF TerminatorAt(bytes) > 0 THEN TerminatorAt(bytes) - 1 ELSE Len(bytes)

\* C24: read_http_request fails with HeadersTooLarge only when the request
\* head, the bytes before the head terminator, is longer than
\* MAX_HEADER_BYTES: a request whose head lies within the ceiling is not
\* refused as HeadersTooLarge, whatever bytes arrive in the read call that
\* completes the terminator.
C24_HeadersTooLargeOnlyForLargeHead ==
  result = ErrHeadersTooLarge => HeadLengthOf(ClientSends) > MAX_HEADER_BYTES
(***************************************************************************)
(* C25                                                                     *)
(***************************************************************************)
\* the invocation of wasm_transform on the pipes has returned
Returned == pc = "pipes" /\ xf.at = "returned"

\* C25: with gateway_wasm as the child, an invocation of wasm_transform
\* never deadlocks on the pipes, whatever the payload and the capacity of
\* the pipes: while the invocation has not returned, the parent or the
\* child can take a step; no write of the parent fails; once the parent
\* waits, the whole payload has been written and the child's stdin is
\* closed; the child exits with status zero having read the whole payload;
\* the invocation eventually returns, and it returns Ok with the bytes
\* `wasm:` followed by the payload, leaving the child as wasm_transform
\* describes it for a run in which nothing fails.
C25_TransformNeverDeadlocks ==
  /\ [](/\ Returned \/ ENABLED NextPipe
        /\ xf.ret # ErrTransformFailed
        /\ IsPrefix(xf.stdin, payload)
        /\ xf.at # "write" => xf.stdin = payload /\ xf.closed
        /\ xf.child # "read" => xf.input = payload /\ xf.closed
        /\ xf.child = "exited" => xf.exit = "zero" /\ xf.output = <<>>
        /\ Len(xf.inPipe) <= xf.cap /\ Len(xf.outPipe) <= xf.cap
        /\ Returned
             => LET t == wasm_transform(payload,
                           [spawn |-> TRUE, written |-> Len(payload),
                            wait |-> TRUE, zero |-> TRUE])
                IN /\ xf.ret = "ok"
                   /\ xf.stdout = <<"w","a","s","m",":">> \o payload
                   /\ t.err = "" /\ t.out = xf.stdout
                   /\ \A f \in DOMAIN NoProc : xf[f] = t.proc[f])
  /\ <>Returned

\* an invocation has returned with a payload longer than the pipes are
\* large
C25_Witness ==
  /\ Returned
  /\ Len(payload) > xf.cap
  /\ xf.ret = "ok"
  /\ xf.stdout = gateway_wasm_main(payload)
(***************************************************************************)
(* C26                                                                     *)
(***************************************************************************)
\* the handler has its body: the transform, where there is one, is about
\* to be called on payload or has been called on it
BodyReady ==
  /\ workload # <<>>
  /\ pc \in {"transform", "write"} \/ respBytes # <<>>

\* the response variant v builds for this request when the transform
\* returns its input
IdentityResponse(v) == AssembleResponse(v, upstream, workload, resp, payload)

\* two responses are the same bytes but for the value of the one
\* X-Gateway-Variant line each has
DiffersOnlyInVariantValue(a, b) ==
  LET la == SplitCRLF(HeadBytes(a))
      lb == SplitCRLF(HeadBytes(b))
  IN /\ TerminatorAt(a) > 0 /\ TerminatorAt(b) > 0
     /\ BodyBytes(a) = BodyBytes(b)
     /\ Len(la) = Len(lb)
     /\ \A i \in 1..Len(la) :
          \/ la[i] = lb[i] /\ (i = 1 \/ HeaderNameOf(la[i]) # N_x_gateway_variant)
          \/ /\ i > 1
             /\ HeaderNameOf(la[i]) = N_x_gateway_variant
             /\ HeaderNameOf(lb[i]) = N_x_gateway_variant
     /\ Len(LinesNamed(Tail(la), N_x_gateway_variant)) = 1

\* the names of the gateway's header sequence for a workload
GatewayHeaderNames(wl) ==
  <<N_x_gateway_variant, N_x_gateway_workload>>
    \o (IF wl = WL_proxy THEN <<N_x_upstream_url, N_x_upstream_status>> ELSE <<>>)
    \o <<N_content_length, N_connection>>

\* the header block of a response ends with the gateway's header sequence
EndsWithGatewayHeaders(bytes, wl) ==
  LET lines == HeaderLines(HeadBytes(bytes))
      names == GatewayHeaderNames(wl)
      n == Len(lines)
      k == Len(names)
  IN /\ n >= k
     /\ \A i \in 1..k : HeaderNameOf(lines[n - k + i]) = names[i]
     /\ lines[n] = HDR_CONNECTION_CLOSE

\* C26: the native variant and the wasm-host variant with a transform that
\* returns its input are equivalent.  The native variant never stands at
\* the transform call and its response is AssembleResponse of the handler's
\* body; the wasm-host variant reaches the transform call by a step that
\* changes nothing else, calls the transform on that same body, and its
\* response is AssembleResponse of the transform's output, so of that same
\* body under the identity; the two responses are the same bytes but for
\* the value of X-Gateway-Variant, and both end their header block with
\* the gateway's header sequence, local and proxied alike.  In both
\* variants the bytes sent upstream are build_forwarded_request of the
\* request read, and the Counter moves by one in the dispatch to the
\* counter endpoint and nowhere else.
C26_VariantsEquivalentUnderIdentity ==
  /\ [](/\ variant = VARIANT_native
             => /\ pc # "transform" /\ xforms = 0 /\ xf = NoProc
                /\ result # ErrTransformFailed
                /\ respBytes # <<>> => respBytes = IdentityResponse(VARIANT_native)
        /\ (variant = VARIANT_wasm_host /\ respBytes # <<>>)
             => /\ respBytes = AssembleResponse(variant, upstream, workload, resp,
                                 IF xforms = 1 THEN xf.stdout ELSE payload)
                /\ xforms = 1 => xf.stdin = payload
                /\ xforms = 0 => respBytes = IdentityResponse(VARIANT_wasm_host)
        /\ BodyReady
             => /\ DiffersOnlyInVariantValue(IdentityResponse(VARIANT_wasm_host),
                                             IdentityResponse(VARIANT_native))
                /\ \A v \in Variants : EndsWithGatewayHeaders(IdentityResponse(v), workload)
        /\ IsPrefix(clientOut, respBytes)
        /\ workload = WL_proxy
             => IsPrefix(upSent, build_forwarded_request(req, head, body, upstream))
        /\ workload # WL_proxy => upSent = <<>> /\ upConns = 0)
  /\ [][/\ pc' = "transform"
             => /\ variant = VARIANT_wasm_host
                /\ pc \in {"dispatch", "read_upstream"}
                /\ UNCHANGED <<readVars, upVars, respBytes, xforms, xf, clientOut,
                               clientOpen, upOpen, result, conns, stateReplies>>
        /\ (pc = "transform" /\ pc' = "write")
             => /\ xf'.stdin = payload
                /\ respBytes' = AssembleResponse(variant, upstream, workload, resp,
                                                 xf'.stdout)
                /\ UNCHANGED <<readVars, upVars, procVars, workload, payload>>
        /\ counter' # counter
             => /\ pc = "dispatch" /\ workload' = WL_state
                /\ counter' = counter + 1]_vars

\* the native variant has delivered a proxied response, the one the
\* wasm-host variant would deliver but for the value of X-Gateway-Variant
C26_Witness ==
  /\ variant = VARIANT_native
  /\ workload = WL_proxy /\ result = "ok"
  /\ clientOut = IdentityResponse(VARIANT_native)
  /\ payload # <<>>
  /\ IdentityResponse(VARIANT_wasm_host) # clientOut
  /\ DiffersOnlyInVariantValue(IdentityResponse(VARIANT_wasm_host), clientOut)
(***************************************************************************)
(* C27                                                                     *)
(***************************************************************************)
\* read_all_response has returned Ok on the proxy path
UpstreamReadToEnd ==
  /\ workload = WL_proxy
  /\ pc \in {"transform", "write"} \/ respBytes # <<>> \/ clientOut # <<>>

\* C27: a proxied response is written to the client only after the
\* upstream connection has reached end-of-stream.  read_all_response is
\* left with a response only by the read call that returns 0, with every
\* byte of the upstream read; the response for the client is built from
\* all those bytes, never from a prefix of them; and when the upstream has
\* sent everything it sends without closing, the read times out, the
\* request fails with the I/O error and the client has received nothing.
C27_ResponseOnlyAfterUpstreamEnd ==
  /\ [](/\ UpstreamReadToEnd
             => /\ upIn = <<>>
                /\ UpstreamResponseError(resp) = ""
                /\ payload = split_http_response(resp).body
        /\ (workload = WL_proxy /\ respBytes # <<>>)
             => /\ HeadBytes(respBytes)
                     = HeadBytes(AssembleResponse(variant, upstream, WL_proxy, resp,
                                                  BodyBytes(respBytes)))
                /\ BodyBytes(respBytes) = ExpectedTransform(variant, payload)
        /\ (workload = WL_proxy /\ clientOut # <<>>) => IsPrefix(clientOut, respBytes)
        /\ result = ErrIo => clientOut = <<>> /\ respBytes = <<>> /\ ~clientOpen)
  /\ [][/\ (pc = "read_upstream" /\ pc' \in {"transform", "write"})
             => upIn = <<>> /\ upIn' = <<>> /\ resp' = resp
        /\ (pc = "read_upstream" /\ upIn = <<>> /\ pc' = "done")
             => /\ resp' = resp /\ clientOut' = <<>> /\ respBytes' = <<>>
                /\ result' \in {ErrIo, ErrMalformedUpstream}
                /\ UpstreamResponseError(resp) = "" => result' = ErrIo]_vars

\* an upstream has sent a complete response, head and the body it
\* declares, and has not closed: the request has failed on the timed out
\* read with nothing sent to the client
C27_Witness ==
  /\ workload = WL_proxy
  /\ pc = "done" /\ result = ErrIo
  /\ resp = U_ok /\ upIn = <<>>
  /\ UpstreamResponseError(resp) = ""
  /\ clientOut = <<>>

=============================================================================
